---- MODULE Spec2Model ----
(***************************************************************************)
(* xspf_tools: playlist parsing (xspf_parser.rs), filename decomposition   *)
(* and extension classification (track_name_info.rs).                      *)
(*                                                                         *)
(* A Rust string is a sequence of characters; a character is a one-letter  *)
(* TLA+ string.  Two characters outside ASCII are written as tokens.       *)
(***************************************************************************)
EXTENDS Integers, Sequences, FiniteSets

VARIABLES
    pc,         \* position of the running operation
    extn_str,   \* TrackExtension::from_str: the argument s
    extn,       \* ... its Result<TrackExtension, &str>
    extn_text,  \* TrackExtension::to_string of the value
    extn_again, \* from_str of the rendered text
    stem,       \* FilenameInfoComponents::from_file_stem: the argument
    fic,        \* ... the FilenameInfoComponents it returns
    new_arg,    \* FilenameInfoComponents::new: the argument
    new_fic,    \* ... what it returns, or that it panicked
    root,       \* XspfPlaylist::from_xml_tree: the children of the root element
    in_file,    \* ... the name of the playlist file
    sec,        \* ... index of the child of root the outer loop is at
    trk,        \* ... index of the track element the inner loop is at
    tracklist,  \* ... the local tracklist
    title,      \* ... the local title
    track_arg,  \* Track::from_uri / from_filepath: the argument
    elem,       \* Track::from_xml_elem: the track element
    track_res,  \* ... the Result<Track, &str>, or that the call panicked
    ms,         \* TrackDuration: the milliseconds
    timecode,   \* TrackDuration::to_timecode of it
    n_tracks,   \* XspfPlaylist::len of a playlist to be exported
    width,      \* XspfPlaylist::track_index_width of it
    ordinal,    \* copy_files_mode: track_idx + 1 of the track being named
    padded,     \* ... the ordinal as formatted into the name
    tracks,     \* XspfPlaylist::total_duration: the tracks of the playlist
    total,      \* ... its result
    copy_tracks,    \* copy_files_mode: xspf.tracks
    copy_width,     \* ... track_index_width
    copy_pos,       \* ... the number of tracks the loop has been through
    copy_ok,        \* ... whether fs::copy returned Ok, for each of them
    dest_filenames, \* ... the local dest_filenames
    manifest        \* ... what write_copied_files_manifest left on disk

extnVars == <<extn_str, extn, extn_text, extn_again>>

stemVars == <<stem, fic>>

newVars == <<new_arg, new_fic>>

treeVars == <<root, in_file, sec, trk, tracklist, title>>

trackVars == <<track_arg, elem, track_res>>

durVars == <<ms, timecode>>

widthVars == <<n_tracks, width, ordinal, padded>>

totalVars == <<tracks, total>>

copyVars == <<copy_tracks, copy_width, copy_pos, copy_ok, dest_filenames, manifest>>

vars == <<pc, extnVars, stemVars, newVars, treeVars,
          trackVars, durVars, widthVars, totalVars, copyVars>>

(***************************************************************************)
(* Bounds of the model                                                     *)
(***************************************************************************)
\* longest enumerated extension string
MaxExtLen == 3

\* longest enumerated continuation of a stem
MaxTail == 3

\* most track elements in a trackList
MaxTracks == 3

\* most tracks of a playlist to be exported
MaxPlaylistLen == 10001

(***************************************************************************)
(* Characters and strings                                                  *)
(***************************************************************************)
UpperChars == <<"A","B","C","D","E","F","G","H","I","J","K","L","M",
                "N","O","P","Q","R","S","T","U","V","W","X","Y","Z">>

LowerChars == <<"a","b","c","d","e","f","g","h","i","j","k","l","m",
                "n","o","p","q","r","s","t","u","v","w","x","y","z">>

AsciiDigits == <<"0","1","2","3","4","5","6","7","8","9">>

\* ARABIC-INDIC DIGIT THREE: a decimal digit (Unicode Nd) outside ASCII
ArabicThree == "U+0663"

IndexOf(c, chars) == CHOOSE i \in 1..Len(chars) : chars[i] = c

IsIn(c, chars) == \E i \in 1..Len(chars) : chars[i] = c

\* char::to_lowercase on the characters of the model
ToLowerChar(c) == IF IsIn(c, UpperChars) THEN LowerChars[IndexOf(c, UpperChars)] ELSE c

\* str::to_lowercase
to_lowercase(s) == [i \in 1..Len(s) |-> ToLowerChar(s[i])]

\* every string over alphabet of length at most n
Strings(alphabet, n) == UNION {[1..k -> alphabet] : k \in 0..n}

HasPrefix(s, p) == Len(s) >= Len(p) /\ SubSeq(s, 1, Len(p)) = p

\* the part of s after its first n characters
Drop(s, n) == SubSeq(s, n + 1, Len(s))

(***************************************************************************)
(* Result<T, E> and Option<T>                                              *)
(***************************************************************************)
Ok(v) == [kind |-> "Ok", val |-> v]

Err(e) == [kind |-> "Err", val |-> e]

None == [kind |-> "None", val |-> <<>>]

Some(v) == [kind |-> "Some", val |-> v]

(***************************************************************************)
(* track_name_info.rs: TrackExtension                                      *)
(***************************************************************************)
ExtnNames == {"mp3", "flac", "ogg", "m4a", "mp4", "mkv"}

\* the spelling of a unit variant: what #[derive(Debug)] prints for it
VariantName(tag) ==
    CASE tag = "mp3"  -> <<"m","p","3">>
      [] tag = "flac" -> <<"f","l","a","c">>
      [] tag = "ogg"  -> <<"o","g","g">>
      [] tag = "m4a"  -> <<"m","4","a">>
      [] tag = "mp4"  -> <<"m","p","4">>
      [] tag = "mkv"  -> <<"m","k","v">>
      [] tag = "Placeholder" -> <<"P","l","a","c","e","h","o","l","d","e","r">>
      [] tag = "Unknown" -> <<"U","n","k","n","o","w","n">>

\* enum TrackExtension: a unit variant, or Unknown(String)
Variant(tag) == [tag |-> tag, s |-> <<>>]

Unknown(s) == [tag |-> "Unknown", s |-> s]

Placeholder == Variant("Placeholder")

\* from_str without the case folding: the match is on s itself
from_str_case_sensitive(s) ==
    IF \E n \in ExtnNames : s = VariantName(n)
    THEN Ok(Variant(CHOOSE n \in ExtnNames : s = VariantName(n)))
    ELSE IF s = <<>> THEN Err("No Extension?")
    ELSE Ok(Unknown(s))

\* from_str keeping the case-folded text in Unknown
from_str_folded_payload(s) ==
    LET l == to_lowercase(s) IN
    IF \E n \in ExtnNames : l = VariantName(n)
    THEN Ok(Variant(CHOOSE n \in ExtnNames : l = VariantName(n)))
    ELSE IF l = <<>> THEN Err("No Extension?")
    ELSE Ok(Unknown(l))

\* from_str without the arm for the empty string
from_str_no_empty_arm(s) ==
    LET l == to_lowercase(s) IN
    IF \E n \in ExtnNames : l = VariantName(n)
    THEN Ok(Variant(CHOOSE n \in ExtnNames : l = VariantName(n)))
    ELSE Ok(Unknown(s))

\* impl FromStr for TrackExtension
from_str(s) ==
    LET l == to_lowercase(s) IN
    IF \E n \in ExtnNames : l = VariantName(n)
    THEN Ok(Variant(CHOOSE n \in ExtnNames : l = VariantName(n)))
    ELSE IF l = <<>> THEN Err("No Extension?")
    ELSE Ok(Unknown(s))

\* str's Debug: the text between quotes, with its escapes
escape_debug(s) ==
    LET EscChar(c) == IF c = "\n" THEN <<"\\", "n">>
                      ELSE IF c = "\"" THEN <<"\\", "\"">>
                      ELSE IF c = "\\" THEN <<"\\", "\\">>
                      ELSE <<c>>
        F[i \in 0..Len(s)] == IF i = 0 THEN <<>> ELSE F[i - 1] \o EscChar(s[i])
    IN <<"\"">> \o F[Len(s)] \o <<"\"">>

\* #[derive(Debug)] for TrackExtension: format!("{:?}", e)
fmt_debug(e) ==
    IF e.tag = "Unknown"
    THEN VariantName("Unknown") \o <<"(">> \o escape_debug(e.s) \o <<")">>
    ELSE VariantName(e.tag)

\* to_string without the special case: the derived Debug for every variant
to_string_debug_only(e) == fmt_debug(e)

\* impl ToString for TrackExtension
to_string(e) == IF e.tag = "Unknown" THEN e.s ELSE fmt_debug(e)

(***************************************************************************)
(* Inputs of the extension classifier                                      *)
(***************************************************************************)
ExtnAlphabet == {"m", "M", "p", "3", "o", "g"}

\* spellings the enumeration does not reach
ExtnWords == {
    <<"f","l","a","c">>, <<"F","L","A","C">>, <<"F","l","a","C">>,
    <<"m","4","a">>, <<"M","4","A">>, <<"m","p","4">>, <<"M","P","4">>,
    <<"m","k","v">>, <<"M","K","V">>, <<"m","K","v">>, <<"M","P","3">>,
    <<"O","G","G">>, <<"o","G","g">>,
    <<"a","a","c">>, <<"A","I","F","F">>, <<"w","a","v">>, <<"W","a","V">>,
    <<"a","p","p","l","e","_","p","i","e">>,
    <<"P","l","a","c","e","h","o","l","d","e","r">>,
    <<"U","n","k","n","o","w","n">>,
    <<"m","p","3","\n">>, <<"\"">>, <<"m","p","3","4">> }

ExtnInputs == Strings(ExtnAlphabet, MaxExtLen) \cup ExtnWords

(***************************************************************************)
(* The regex crate on the two patterns of track_name_info.rs.              *)
(* A position is the number of characters consumed.  Each piece of a       *)
(* pattern gives the positions it can end at; the captures are those of    *)
(* the match the engine prefers (earlier alternative, longer repetition).  *)
(***************************************************************************)
\* \d with Unicode on (the crate's default): any decimal digit
IsDigitChar(c) == IsIn(c, AsciiDigits) \/ c = ArabicThree

\* [[:alpha:]]: ASCII letters only
IsAlphaChar(c) == IsIn(c, UpperChars) \/ IsIn(c, LowerChars)

\* . : any character but the line feed
IsDotChar(c) == c # "\n"

\* \d+ from position p
EndsOfDigits(s, p) == {q \in (p + 1)..Len(s) : \A i \in (p + 1)..q : IsDigitChar(s[i])}

\* [[:alpha:]]? from position p
EndsOfOptAlpha(s, p) == {p} \cup (IF p < Len(s) /\ IsAlphaChar(s[p + 1]) THEN {p + 1} ELSE {})

\* -(?P<id>.+)$ from position p
TitleAt(s, p) ==
    /\ p + 2 <= Len(s)
    /\ s[p + 1] = "-"
    /\ \A i \in (p + 2)..Len(s) : IsDotChar(s[i])

Max(S) == CHOOSE x \in S : \A y \in S : y <= x

Min(S) == CHOOSE x \in S : \A y \in S : x <= y

\* the prefixes with the whole group made optional
ViolinPrefixesOptional == <<
    <<"v">>,
    <<"v","l","n","_","l","a","y","e","r","i","n","g","-">>,
    <<"v","l","n","_","l","a","y","e","r","i","n","g","_">>,
    <<"v","l","n","_","i","m","p","r","o","v","-">>,
    <<"v","l","n","_","i","m","p","r","o","v","_">>,
    <<>> >>

\* v | (vln_layering | vln_improv)(- | _), in the order the engine tries them
ViolinPrefixes == <<
    <<"v">>,
    <<"v","l","n","_","l","a","y","e","r","i","n","g","-">>,
    <<"v","l","n","_","l","a","y","e","r","i","n","g","_">>,
    <<"v","l","n","_","i","m","p","r","o","v","-">>,
    <<"v","l","n","_","i","m","p","r","o","v","_">> >>

\* the ways the pattern after alternative k of the prefix matches all of s:
\* <<end of index, end of variant>>
ViolinMatchesAt(s, k) ==
    IF ~HasPrefix(s, ViolinPrefixes[k]) THEN {}
    ELSE {m \in UNION {{<<q1, q2>> : q2 \in EndsOfOptAlpha(s, q1)} :
                          q1 \in EndsOfDigits(s, Len(ViolinPrefixes[k]))} :
            m[2] = Len(s) \/ TitleAt(s, m[2])}

\* RE_VIOLIN_LAYERING.captures(s): the groups index and id, or None
RE_VIOLIN_LAYERING(s) ==
    LET K == {k \in 1..Len(ViolinPrefixes) : ViolinMatchesAt(s, k) # {}}
    IN IF K = {} THEN None
       ELSE LET k  == Min(K)
                M  == ViolinMatchesAt(s, k)
                q1 == Max({m[1] : m \in M})
                q2 == Max({m[2] : m \in {x \in M : x[1] = q1}})
            IN Some([index |-> SubSeq(s, Len(ViolinPrefixes[k]) + 1, q1),
                     id    |-> IF q2 < Len(s) THEN Some(Drop(s, q2 + 1)) ELSE None])

\* the ways ^\d{8}[[:alpha:]]?-\d+-.+$ matches all of s:
\* <<end of variant, end of index>>
MuseMatches(s) ==
    IF ~(Len(s) >= 8 /\ \A i \in 1..8 : IsDigitChar(s[i])) THEN {}
    ELSE {m \in UNION {{<<q2, q3>> : q3 \in EndsOfDigits(s, q2 + 1)} :
                          q2 \in {q \in EndsOfOptAlpha(s, 8) :
                                    q < Len(s) /\ s[q + 1] = "-"}} :
            TitleAt(s, m[2])}

\* RE_MUSE_SCORE.captures(s): the groups index and id, or None
RE_MUSE_SCORE(s) ==
    LET M == MuseMatches(s)
    IN IF M = {} THEN None
       ELSE LET q2 == Max({m[1] : m \in M})
                q3 == Max({m[2] : m \in {x \in M : x[1] = q2}})
            IN Some([index |-> SubSeq(s, q2 + 2, q3),
                     id    |-> Some(Drop(s, q3 + 1))])

(***************************************************************************)
(* str::parse::<i32>() on a string of digits                               *)
(***************************************************************************)
I32_MAX == 2147483647

\* the digit loop of parse::<i32>(): checked_mul(10), then checked_add(digit)
RECURSIVE parse_digits(_, _, _)
parse_digits(d, i, acc) ==
    IF i > Len(d) THEN Ok(acc)
    ELSE IF ~IsIn(d[i], AsciiDigits) THEN Err("InvalidDigit")
    ELSE LET v == IndexOf(d[i], AsciiDigits) - 1
         IN IF acc > (I32_MAX - v) \div 10
            THEN Err("PosOverflow")
            ELSE parse_digits(d, i + 1, acc * 10 + v)

\* str::parse::<i32>(): an error on the empty string, on a character that is
\* no ASCII digit and on overflow
parse_i32(d) == IF d = <<>> THEN Err("Empty") ELSE parse_digits(d, 1, 0)

\* unwrap_or with -1 in place of the default of i32
unwrap_or_minus_one(r) == IF r.kind = "Ok" THEN r.val ELSE -1

\* Result::unwrap_or_default for i32
unwrap_or_default(r) == IF r.kind = "Ok" THEN r.val ELSE 0

(***************************************************************************)
(* track_name_info.rs: FilenameInfoComponents::from_file_stem              *)
(***************************************************************************)
Untitled == <<"<","U","n","t","i","t","l","e","d",">">>

\* the fallback branch with the index of xspf_parser.rs
FallbackIndexOne == 1

\* index of the fallback branch
FallbackIndex == 0

\* the violin branch with an empty name for a missing title
ViolinNameNoSentinel(cap) == IF cap.id.kind = "Some" THEN cap.id.val ELSE <<>>

\* name of the violin branch: the id group, or "<Untitled>"
ViolinName(cap) == IF cap.id.kind = "Some" THEN cap.id.val ELSE Untitled

\* name of the muse-score branch cut at the next separator
MuseNameFirstWord(cap) ==
    LET t == cap.id.val
        cut == {i \in 2..Len(t) : t[i] = "-"}
    IN IF cut = {} THEN t ELSE SubSeq(t, 1, Min(cut) - 1)

\* name of the muse-score branch: the id group
MuseName(cap) == cap.id.val

from_file_stem(filename) ==
    LET vcap == RE_VIOLIN_LAYERING(filename)
        mcap == RE_MUSE_SCORE(filename)
    IN IF vcap.kind = "Some"
       THEN [track_type |-> "ViolinLayering",
             index      |-> unwrap_or_default(parse_i32(vcap.val.index)),
             name       |-> ViolinName(vcap.val),
             extn       |-> Placeholder]
       ELSE IF mcap.kind = "Some"
       THEN [track_type |-> "MuseScore",
             index      |-> unwrap_or_default(parse_i32(mcap.val.index)),
             name       |-> MuseName(mcap.val),
             extn       |-> Placeholder]
       ELSE [track_type |-> "UnknownType",
             index      |-> FallbackIndex,
             name       |-> filename,
             extn       |-> Placeholder]

(***************************************************************************)
(* std::path::Path on a name without a separator                           *)
(***************************************************************************)
Panic == [kind |-> "Panic", val |-> <<>>]

\* Path::file_name: None for the empty path, "." and ".."
file_name(name) ==
    IF name \in {<<>>, <<".">>, <<".", ".">>} THEN None ELSE Some(name)

\* split_file_at_dot: <<before, after>> of the last dot; the whole name
\* counts as "before" when nothing precedes that dot
split_file_at_dot(file) ==
    LET dots == {i \in 1..Len(file) : file[i] = "."}
    IN IF dots = {} THEN <<None, Some(file)>>
       ELSE IF Max(dots) = 1 THEN <<Some(file), None>>
       ELSE <<Some(SubSeq(file, 1, Max(dots) - 1)), Some(Drop(file, Max(dots)))>>

\* Path::file_stem: before.or(after)
file_stem(name) ==
    IF file_name(name).kind = "None" THEN None
    ELSE LET ba == split_file_at_dot(name)
         IN IF ba[1].kind = "Some" THEN ba[1] ELSE ba[2]

\* Path::extension: before.and(after)
extension(name) ==
    IF file_name(name).kind = "None" THEN None
    ELSE LET ba == split_file_at_dot(name)
         IN IF ba[1].kind = "Some" THEN ba[2] ELSE None

(***************************************************************************)
(* track_name_info.rs: FilenameInfoComponents::new                         *)
(***************************************************************************)
\* new leaving the extension of the stub in place
new_keeps_stub(name) ==
    IF file_stem(name).kind = "None" THEN Panic
    ELSE IF extension(name).kind = "None" THEN Panic
    ELSE IF from_str(extension(name).val).kind = "Err" THEN Panic
    ELSE Ok(from_file_stem(file_stem(name).val))

\* every unwrap() of new panics on None or Err
new(name) ==
    IF file_stem(name).kind = "None" THEN Panic
    ELSE IF extension(name).kind = "None" THEN Panic
    ELSE IF from_str(extension(name).val).kind = "Err" THEN Panic
    ELSE Ok([from_file_stem(file_stem(name).val)
                EXCEPT !.extn = from_str(extension(name).val).val])

(***************************************************************************)
(* xspf_parser.rs: its own TrackExtension and FilenameInfoComponents       *)
(***************************************************************************)
xspf_ExtnNames == {"mp3", "flac", "ogg", "m4a", "mp4"}

\* impl FromStr for TrackExtension: the match is on s itself
xspf_from_str(s) ==
    IF \E n \in xspf_ExtnNames : s = VariantName(n)
    THEN Ok(Variant(CHOOSE n \in xspf_ExtnNames : s = VariantName(n)))
    ELSE Err("Unknown extension")

\* the ways ^v\d+[[:alpha:]]?-.+$ matches all of s
xspf_ViolinMatches(s) ==
    IF ~HasPrefix(s, <<"v">>) THEN {}
    ELSE {m \in UNION {{<<q1, q2>> : q2 \in EndsOfOptAlpha(s, q1)} :
                          q1 \in EndsOfDigits(s, 1)} :
            TitleAt(s, m[2])}

\* RE_VIOLIN_LAYERING.captures(s) of xspf_parser.rs
xspf_RE_VIOLIN_LAYERING(s) ==
    LET M == xspf_ViolinMatches(s)
    IN IF M = {} THEN None
       ELSE LET q1 == Max({m[1] : m \in M})
                q2 == Max({m[2] : m \in {x \in M : x[1] = q1}})
            IN Some([index |-> SubSeq(s, 2, q1), id |-> Some(Drop(s, q2 + 1))])

xspf_from_file_stem(name) ==
    LET vcap == xspf_RE_VIOLIN_LAYERING(name)
        mcap == RE_MUSE_SCORE(name)
    IN IF vcap.kind = "Some"
       THEN [track_type |-> "ViolinLayering",
             index      |-> unwrap_or_default(parse_i32(vcap.val.index)),
             name       |-> vcap.val.id.val,
             extn       |-> Placeholder]
       ELSE IF mcap.kind = "Some"
       THEN [track_type |-> "MuseScore",
             index      |-> unwrap_or_default(parse_i32(mcap.val.index)),
             name       |-> mcap.val.id.val,
             extn       |-> Placeholder]
       ELSE [track_type |-> "UnknownType",
             index      |-> 1,
             name       |-> name,
             extn       |-> Placeholder]

\* FilenameInfoComponents::new of xspf_parser.rs
xspf_new(name) ==
    IF file_stem(name).kind = "None" THEN Panic
    ELSE IF extension(name).kind = "None" THEN Panic
    ELSE IF xspf_from_str(extension(name).val).kind = "Err" THEN Panic
    ELSE Ok([xspf_from_file_stem(file_stem(name).val)
                EXCEPT !.extn = xspf_from_str(extension(name).val).val])

(***************************************************************************)
(* xspf_parser.rs: Track                                                   *)
(***************************************************************************)
\* a numeral without its leading zeros
RECURSIVE StripZeros(_)
StripZeros(d) ==
    IF Len(d) > 1 /\ d[1] = "0" THEN StripZeros(Tail(d)) ELSE d

\* a <= b for two numerals without leading zeros
NumeralLeq(a, b) ==
    \/ Len(a) < Len(b)
    \/ /\ Len(a) = Len(b)
       /\ \A i \in 1..Len(a) :
            (\A j \in 1..(i - 1) : a[j] = b[j]) =>
                IndexOf(a[i], AsciiDigits) <= IndexOf(b[i], AsciiDigits)

I64_MAX == <<"9","2","2","3","3","7","2","0","3","6","8","5","4","7","7","5","8","0","7">>

I64_MIN_ABS == <<"9","2","2","3","3","7","2","0","3","6","8","5","4","7","7","5","8","0","8">>

\* str::parse::<i64>(): an optional sign, then ASCII digits within the range
\* of i64.  The value is kept as its numeral: [neg, digits].
parse_i64(s) ==
    LET signed == s # <<>> /\ s[1] \in {"+", "-"}
        d == IF signed THEN Tail(s) ELSE s
        z == StripZeros(d)
        neg == signed /\ s[1] = "-"
    IN IF s = <<>> THEN Err("Empty")
       ELSE IF d = <<>> \/ \E i \in 1..Len(d) : ~IsIn(d[i], AsciiDigits)
            THEN Err("InvalidDigit")
       ELSE IF neg /\ ~NumeralLeq(z, I64_MIN_ABS) THEN Err("NegOverflow")
       ELSE IF ~neg /\ ~NumeralLeq(z, I64_MAX) THEN Err("PosOverflow")
       ELSE Ok([neg |-> neg /\ z # <<"0">>, digits |-> z])

\* str::split("/"): the segments between the separators, at least one
RECURSIVE split(_, _)
split(s, sep) ==
    LET at == {i \in 1..Len(s) : s[i] = sep}
    IN IF at = {} THEN <<s>>
       ELSE <<SubSeq(s, 1, Min(at) - 1)>> \o split(Drop(s, Min(at)), sep)

FILE_URI_PREFIX == <<"f","i","l","e",":","/","/","/">>

\* Track::from_filepath: pop the filename, pop the date, build the info
from_filepath(path) ==
    LET path_elems == split(path, "/")
        n == Len(path_elems)
    IN IF n < 2 THEN Panic
       ELSE IF xspf_new(path_elems[n]).kind = "Panic" THEN Panic
       ELSE Ok([path     |-> path,
                filename |-> path_elems[n],
                date     |-> path_elems[n - 1],
                duration |-> None,
                info     |-> xspf_new(path_elems[n]).val])

\* from_uri taking file:// for the prefix
from_uri_scheme_only(uri) ==
    IF HasPrefix(uri, SubSeq(FILE_URI_PREFIX, 1, 7))
    THEN from_filepath(Drop(uri, 7))
    ELSE Err("Unsupported URI - Must start with 'file:///'")

\* Track::from_uri
from_uri(uri) ==
    IF HasPrefix(uri, FILE_URI_PREFIX)
    THEN from_filepath(Drop(uri, Len(FILE_URI_PREFIX)))
    ELSE Err("Unsupported URI - Must start with 'file:///'")

\* Track::from_xml_elem; e_track is [location, duration]: the text of the
\* first child of each name, or None
from_xml_elem(e_track) ==
    IF e_track.location.kind = "Some"
    THEN LET track == from_uri(e_track.location.val)
         IN IF track.kind = "Ok"
            THEN IF e_track.duration.kind = "Some"
                    /\ parse_i64(e_track.duration.val).kind = "Ok"
                 THEN Ok([track.val EXCEPT
                            !.duration = Some(parse_i64(e_track.duration.val).val)])
                 ELSE track
            ELSE track
    ELSE Err("Element skipped as no location info found")

(***************************************************************************)
(* Inputs of the decomposition: a beginning followed by every string over  *)
(* StemAlphabet of length at most MaxTail                                  *)
(***************************************************************************)
StemAlphabet == {"0", "5", "a", "-", "_", "\n", ArabicThree}

Date8 == <<"2","0","1","7","0","8","0","2">>

StemPrefixes == {
    <<>>,
    <<"v">>,
    <<"V">>,
    <<"x","v">>,
    <<"v","0","5">>,
    <<"v","l","n","_","l","a","y","e","r","i","n","g">>,
    <<"v","l","n","_","l","a","y","e","r","i","n","g","-">>,
    <<"v","l","n","_","l","a","y","e","r","i","n","g","_">>,
    <<"v","l","n","_","i","m","p","r","o","v","_">>,
    <<"v","l","n","_","i","m","p","r","o","v","-">>,
    <<"v","2","1","4","7","4","8","3","6","4","7">>,
    <<"v","2","1","4","7","4","8","3","6","4","8">>,
    <<"v","l","n","_","i","m","p","r","o","v","_","4","2","9","4","9","6","7","2","9","7">>,
    Date8,
    Date8 \o <<"-">>,
    Date8 \o <<"b","-">>,
    Date8 \o <<"-","0","2","-","T">>,
    <<"2","0","1","7","0","8","0","-">>,
    Date8 \o <<"1","-">>,
    Date8 \o <<"-","2","1","4","7","4","8","3","6","4","7">>,
    Date8 \o <<"-","2","1","4","7","4","8","3","6","4","8">> }

StemInputs == {p \o t : p \in StemPrefixes, t \in Strings(StemAlphabet, MaxTail)}

(***************************************************************************)
(* Inputs of FilenameInfoComponents::new: names without a separator        *)
(***************************************************************************)
FilenameBases == {
    <<>>,
    <<".">>,
    <<"x">>,
    <<"a", ".", "b">>,
    <<"v","0","1">>,
    <<"v","0","1","-","a">>,
    Date8 \o <<"-","0","2","-","T">> }

FilenameInputs ==
    {b \o d \o e : b \in FilenameBases, d \in {<<>>, <<".">>}, e \in ExtnInputs}

(***************************************************************************)
(* Inputs of XspfPlaylist::from_xml_tree                                   *)
(***************************************************************************)
LocViolin == FILE_URI_PREFIX \o
    <<"2","0","1","7","/","v","0","1","-","a",".","m","p","3">>

LocPlain == FILE_URI_PREFIX \o <<"d","/","x",".","f","l","a","c">>

LocMuse == FILE_URI_PREFIX \o
    <<"m","/">> \o Date8 \o <<"-","0","2","-","T",".","o","g","g">>

LocHttp == <<"h","t","t","p",":","/","/","h","/","d","/","a",".","m","p","3">>

LocWav == FILE_URI_PREFIX \o <<"d","/","a",".","w","a","v">>

LocOneSegment == FILE_URI_PREFIX \o <<"a",".","m","p","3">>

\* <track> elements: the text of <location> and of <duration>, when present
TrackElems == {
    [location |-> None,            duration |-> None],
    [location |-> None,            duration |-> Some(<<"1","0","0","0">>)],
    [location |-> Some(LocViolin), duration |-> Some(<<"1","0","0","0">>)],
    [location |-> Some(LocPlain),  duration |-> None],
    [location |-> Some(LocMuse),   duration |-> Some(<<"a","b","c">>)],
    [location |-> Some(LocHttp),   duration |-> Some(<<"2","0","0","0">>)],
    [location |-> Some(LocWav),    duration |-> None],
    [location |-> Some(LocOneSegment), duration |-> None] }

TrackLists == UNION {[1..k -> TrackElems] : k \in 0..MaxTracks}

TitleElem == [name |-> "title", text |-> <<"M","y">>, children |-> <<>>]

CreatorElem == [name |-> "creator", text |-> <<"m","e">>, children |-> <<>>]

TrackListElem(elems) == [name |-> "trackList", text |-> <<>>, children |-> elems]

\* the documents: a trackList alone, after a title, or between other children
Roots ==
    UNION {{ <<TrackListElem(e)>>,
             <<TitleElem, TrackListElem(e)>>,
             <<CreatorElem, TrackListElem(e), TitleElem>> } : e \in TrackLists}

PlaylistFile == <<"p",".","x","s","p","f">>

(***************************************************************************)
(* Arithmetic of i64 and f64.  A natural number is the sequence of its     *)
(* bits, least significant first; an i64 is kept as the numeral            *)
(* [neg, digits] that parse_i64 returns.                                   *)
(***************************************************************************)
DigitValue(c) == IndexOf(c, AsciiDigits) - 1

\* Display of an unsigned integer
RECURSIVE fmt_display(_)
fmt_display(n) ==
    IF n < 10 THEN <<AsciiDigits[n + 1]>>
    ELSE fmt_display(n \div 10) \o <<AsciiDigits[(n % 10) + 1]>>

\* a numeral divided by a small k, digit i onwards: <<quotient, remainder>>
RECURSIVE div_digits(_, _, _, _, _)
div_digits(d, k, i, carry, acc) ==
    IF i > Len(d) THEN <<acc, carry>>
    ELSE LET v == carry * 10 + DigitValue(d[i])
         IN div_digits(d, k, i + 1, v % k,
                       Append(acc, AsciiDigits[(v \div k) + 1]))

\* the bits of a byte
bits_of_byte(v) == [i \in 1..8 |-> (v \div (2 ^ (i - 1))) % 2]

\* the bits of a numeral, eight at a time
RECURSIVE bits_of_digits(_)
bits_of_digits(d) ==
    IF \A i \in 1..Len(d) : d[i] = "0" THEN <<>>
    ELSE LET h == div_digits(d, 256, 1, 0, <<>>)
         IN bits_of_byte(h[2]) \o bits_of_digits(h[1])

\* k times a numeral plus a carry, digit i downwards
RECURSIVE mul_digits(_, _, _, _, _)
mul_digits(d, k, i, carry, acc) ==
    IF i = 0
    THEN IF carry = 0 THEN acc ELSE fmt_display(carry) \o acc
    ELSE LET v == k * DigitValue(d[i]) + carry
         IN mul_digits(d, k, i - 1, v \div 10,
                       <<AsciiDigits[(v % 10) + 1]>> \o acc)

\* the value of the bits 8j-7 .. 8j of b
byte_of_bits(b, j) ==
    LET bit(i) == IF i <= Len(b) THEN b[i] ELSE 0
    IN bit(8 * j - 7) + 2 * bit(8 * j - 6) + 4 * bit(8 * j - 5)
         + 8 * bit(8 * j - 4) + 16 * bit(8 * j - 3) + 32 * bit(8 * j - 2)
         + 64 * bit(8 * j - 1) + 128 * bit(8 * j)

\* the numeral of the bytes j downwards of b, after the numeral acc
RECURSIVE digits_of_bytes(_, _, _)
digits_of_bytes(b, j, acc) ==
    IF j = 0 THEN acc
    ELSE digits_of_bytes(b, j - 1,
            StripZeros(mul_digits(acc, 256, Len(acc), byte_of_bits(b, j), <<>>)))

\* the numeral of a natural
digits_of_bits(b) == digits_of_bytes(b, (Len(b) + 7) \div 8, <<"0">>)

\* b on w bits
pad_bits(b, w) == [i \in 1..w |-> IF i <= Len(b) THEN b[i] ELSE 0]

\* the bits of a + b + carry from byte j upwards, after the bits acc
RECURSIVE add_from(_, _, _, _, _)
add_from(a, b, j, carry, acc) ==
    IF 8 * j - 7 > Len(a) THEN acc
    ELSE LET v == byte_of_bits(a, j) + byte_of_bits(b, j) + carry
         IN add_from(a, b, j + 1, v \div 256, acc \o bits_of_byte(v % 256))

\* a + b modulo 2^w for two sequences of w bits
add_bits(a, b) == SubSeq(add_from(a, b, 1, 0, <<>>), 1, Len(a))

\* two's complement of a sequence of w bits
neg_bits(a) ==
    add_bits([i \in 1..Len(a) |-> 1 - a[i]],
             [i \in 1..Len(a) |-> IF i = 1 THEN 1 ELSE 0])

\* the two's complement representation on w bits of a numeral
to_twos(n, w) ==
    LET m == pad_bits(bits_of_digits(n.digits), w)
    IN IF n.neg THEN neg_bits(m) ELSE m

\* the numeral of a two's complement representation
from_twos(v) ==
    LET negative == v[Len(v)] = 1
        m == IF negative THEN neg_bits(v) ELSE v
    IN [neg |-> negative, digits |-> digits_of_bits(m)]

\* x + y on i64: the sum modulo 2^64 and whether the true sum left i64
i64_add(x, y) ==
    LET a == to_twos(x, 64)
        b == to_twos(y, 64)
        s == add_bits(a, b)
    IN [sum |-> from_twos(s), overflow |-> a[64] = b[64] /\ s[64] # a[64]]

\* the number of bits of a natural
bit_length(b) ==
    LET ones == {i \in 1..Len(b) : b[i] = 1}
    IN IF ones = {} THEN 0 ELSE Max(ones)

\* the bytes j downwards of b divided by a small k, after the remainder r
\* and the quotient acc of the bytes above them: [q, r]
RECURSIVE div_from(_, _, _, _, _)
div_from(b, k, j, r, acc) ==
    IF j = 0 THEN [q |-> acc, r |-> r]
    ELSE LET v == 256 * r + byte_of_bits(b, j)
         IN div_from(b, k, j - 1, v % k, bits_of_byte(v \div k) \o acc)

\* b divided by a small k: [q, r]
div_small(b, k) == div_from(b, k, (Len(b) + 7) \div 8, 0, <<>>)

\* b, or b and a fraction when sticky, rounded to sig significant bits, to
\* nearest and ties to even; the bits below the kept ones become zero
round_bits(b, sig, sticky) ==
    LET n == bit_length(b)
        drop == n - sig
    IN IF drop <= 0 THEN b
       ELSE LET rest == sticky \/ \E i \in 1..(drop - 1) : b[i] = 1
                up == b[drop] = 1 /\ (rest \/ b[drop + 1] = 1)
                kept == [i \in 1..(n + 1) |->
                            IF i <= drop \/ i > n THEN 0 ELSE b[i]]
                ulp == [i \in 1..(n + 1) |-> IF i = drop + 1 THEN 1 ELSE 0]
            IN IF up THEN add_bits(kept, ulp) ELSE kept

(***************************************************************************)
(* main.rs: copy_files_mode, the ordinal of a track in the name of its     *)
(* copy; XspfPlaylist::track_index_width                                   *)
(***************************************************************************)
\* the format without the 0 flag and the width
format_unpadded(n, w) == fmt_display(n)

\* {track_idx:0tixw$}: zeros on the left up to w characters, never a cut
format_zero_padded(n, w) ==
    LET d == fmt_display(n)
    IN IF Len(d) >= w THEN d ELSE [i \in 1..(w - Len(d)) |-> "0"] \o d

\* the widths changing one track early
track_index_width_early(n) ==
    IF n < 99 THEN 2 ELSE IF n < 999 THEN 3 ELSE 4

\* XspfPlaylist::track_index_width of a playlist of n tracks: 2 digits for
\* at most 99 tracks, 3 for 100 to 999, 4 beyond
track_index_width(n) ==
    IF n <= 99 THEN 2 ELSE IF n <= 999 THEN 3 ELSE 4

\* TrackType::shortname
shortname(tt) ==
    CASE tt = "UnknownType"    -> <<"?">>
      [] tt = "ViolinLayering" -> <<"V","L">>
      [] tt = "MuseScore"      -> <<"M","S">>
      [] tt = "Piano"          -> <<"P">>
      [] tt = "Voice"          -> <<"V">>

\* TrackType::shortname_safe
shortname_safe(tt) == IF tt = "UnknownType" THEN <<"t">> ELSE shortname(tt)

\* let dst_filename = ...: the name of the copy of track, the track_idx-th
\* of the playlist counted from 0, with the ordinal tixw wide; {ext:?} is
\* the derived Debug of the extension
dst_filename(track, track_idx, tixw) ==
    IF track.info.track_type = "UnknownType"
    THEN <<"T","r","a","c","k","_">> \o format_zero_padded(track_idx + 1, tixw)
           \o <<"-">> \o track.filename
    ELSE <<"T","r","a","c","k","_">> \o format_zero_padded(track_idx + 1, tixw)
           \o <<"-">> \o track.date
           \o <<"-">> \o shortname_safe(track.info.track_type)
           \o format_zero_padded(track.info.index, 2)
           \o <<"_">> \o track.info.name
           \o <<".">> \o fmt_debug(track.info.extn)

\* write_copied_files_manifest: what the manifest holds afterwards.
\* File::create fails and nothing is written; or a writeln! fails and the
\* loop breaks after the lines before it; or every line is written.
write_copied_files_manifest(filenames) ==
    {[kind |-> "NotCreated", val |-> <<>>]}
    \cup {[kind |-> "Cut", val |-> SubSeq(filenames, 1, k)] :
            k \in 0..(Len(filenames) - 1)}
    \cup {[kind |-> "Written", val |-> filenames]}

\* the lengths of the playlists exported
PlaylistLens ==
    {n \in 0..MaxPlaylistLen :
        n <= 12 \/ n \in 98..101 \/ n \in 998..1001 \/ n >= 9999}

(***************************************************************************)
(* track_duration.rs: TrackDuration                                        *)
(***************************************************************************)
\* ms as f64, for the magnitude of ms
i64_as_f64(mag) == round_bits(mag, 53, FALSE)

\* to_secs(): (ms as f64) / 1000.0_f64.  The quotient is kept as the
\* natural x with x / 2^64 its value.
to_secs(mag) ==
    LET m == i64_as_f64(mag)
        d == div_small([i \in 1..64 |-> 0] \o m, 1000)
    IN round_bits(d.q, 53, d.r # 0)

\* self.to_secs() as i64: the fraction is cut off
f64_as_i64(x) == SubSeq(x, 65, Len(x))

\* {:02} of an i64 given by its sign and the numeral of its magnitude
fmt_02(negative, digits) ==
    IF negative /\ digits # <<"0">> THEN <<"-">> \o digits
    ELSE IF Len(digits) >= 2 THEN digits
    ELSE <<"0">> \o digits

\* TrackDuration::to_timecode; / and % of i64 cut towards zero, so a
\* negative value has the fields of its magnitude with a sign each
to_timecode(d) ==
    LET mag == bits_of_digits(d.digits)
        total_secs == f64_as_i64(to_secs(mag))
        dm == div_small(total_secs, 60)
    IN fmt_02(d.neg, digits_of_bits(dm.q))
         \o <<":">> \o fmt_02(d.neg, fmt_display(dm.r))

\* TrackDuration + TrackDuration: x + y panics on overflow in a build with
\* overflow checks and wraps around in a build without them
track_duration_add(x, y, checked) ==
    LET s == i64_add(x, y)
    IN IF s.overflow /\ checked THEN Panic ELSE Ok(s.sum)

(***************************************************************************)
(* XspfPlaylist::total_duration: tracks lacking a duration increment the   *)
(* uncounted tally, tracks with a duration add their milliseconds          *)
(***************************************************************************)
ZeroDuration == [neg |-> FALSE, digits |-> <<"0">>]

RECURSIVE total_duration_from(_, _, _, _)
total_duration_from(ts, i, acc, checked) ==
    IF i > Len(ts) THEN Ok(acc)
    ELSE IF ts[i].duration.kind = "None"
    THEN total_duration_from(ts, i + 1,
                             [acc EXCEPT !.uncounted = @ + 1], checked)
    ELSE LET s == track_duration_add(acc.duration, ts[i].duration.val, checked)
         IN IF s.kind = "Panic" THEN Panic
            ELSE total_duration_from(ts, i + 1,
                                     [acc EXCEPT !.duration = s.val], checked)

total_duration(ts, checked) ==
    total_duration_from(ts, 1, [duration |-> ZeroDuration, uncounted |-> 0],
                        checked)

(***************************************************************************)
(* Inputs of Track::from_uri, from_filepath and from_xml_elem              *)
(***************************************************************************)
UriSchemes == {
    FILE_URI_PREFIX,
    <<"f","i","l","e",":","/","/">>,
    <<"F","I","L","E",":","/","/","/">>,
    <<"h","t","t","p",":","/","/">>,
    <<" ">> \o FILE_URI_PREFIX,
    <<>> }

UriDirs == { <<>>, <<"d","/">>, <<"2","0","1","7","/">>, <<"x","/","d","/">> }

UriFiles == {
    <<>>,
    <<"a",".","m","p","3">>,
    <<"v","0","1","-","a",".","m","p","3">>,
    <<"a"," ","b",".","f","l","a","c">>,
    <<"a","%","2","0","b",".","m","p","3">>,
    <<"a",".","w","a","v">>,
    <<"a",".","M","P","3">>,
    <<"a",".","m","k","v">>,
    <<"R","E","A","D","M","E">>,
    Date8 \o <<"-","0","2","-","T",".","o","g","g">> }

UriInputs == {s \o d \o f : s \in UriSchemes, d \in UriDirs, f \in UriFiles}

\* texts of a <duration> element
DurationTexts == {
    <<>>,
    <<"0">>,
    <<"1","0","0","0">>,
    <<"0","0","7">>,
    <<"+","7">>,
    <<"-","5">>,
    <<" ","5">>,
    <<"1",".","5">>,
    <<"a","b","c">>,
    <<"-">>,
    I64_MAX,
    I64_MIN_ABS,
    <<"-">> \o I64_MIN_ABS,
    <<"-">> \o I64_MAX }

ElemLocations == {
    LocViolin, LocPlain, LocMuse, LocHttp, LocWav, LocOneSegment,
    FILE_URI_PREFIX \o <<"d","/","a",".","M","P","3">>,
    FILE_URI_PREFIX \o <<"d","/","a",".","m","k","v">> }

ElemInputs ==
    [location : {None} \cup {Some(l) : l \in ElemLocations},
     duration : {None} \cup {Some(d) : d \in DurationTexts}]

NoElem == [location |-> None, duration |-> None]

(***************************************************************************)
(* Inputs of TrackDuration::to_timecode and XspfPlaylist::total_duration   *)
(***************************************************************************)
\* durations of some whole seconds and some milliseconds over them,
\* durations about 2^53 and at the ends of i64, negative durations
DurInputs ==
    {[neg |-> FALSE, digits |-> fmt_display(k * 1000 + r)] :
        k \in {0, 1, 2, 59, 60, 61, 99, 100, 599, 5999, 6000},
        r \in {0, 1, 500, 999}}
    \cup {[neg |-> FALSE, digits |-> d] : d \in {
        <<"9","0","0","7","1","9","9","2","5","4","7","4","0","9","9","1">>,
        <<"9","0","0","7","1","9","9","2","5","4","7","4","0","9","9","2">>,
        <<"9","0","0","7","1","9","9","2","5","4","7","4","0","9","9","9">>,
        <<"1","7","5","9","2","1","8","6","0","4","4","4","1","5","9","9","9">>,
        I64_MAX }}
    \cup {[neg |-> TRUE, digits |-> d] : d \in {
        <<"1">>, <<"5","0","0","0">>, <<"6","1","0","0","0">>, I64_MIN_ABS }}

\* the tracks summed: made by from_xml_elem from a <duration> that is
\* absent, a number or not a number
TotalTracks ==
    {from_xml_elem([location |-> Some(LocViolin), duration |-> d]).val :
        d \in {None} \cup {Some(x) : x \in {
            <<"0">>,
            <<"1","0","0","0">>,
            <<"2","0","0","0">>,
            <<"-","5">>,
            <<"a","b","c">>,
            I64_MAX,
            <<"-">> \o I64_MIN_ABS }}}

TotalInputs == UNION {[1..n -> TotalTracks] : n \in 0..MaxTracks}

(***************************************************************************)
(* Inputs of copy_files_mode                                               *)
(***************************************************************************)
\* a Track of the playlist main.rs works on: the fields of Track, the info
\* being the FilenameInfoComponents of track_name_info
copy_track(path) ==
    LET path_elems == split(path, "/")
        n == Len(path_elems)
    IN [path     |-> path,
        filename |-> path_elems[n],
        date     |-> path_elems[n - 1],
        duration |-> None,
        info     |-> new(path_elems[n]).val]

\* the tracks of the playlists copied: of a recognized type and of none,
\* with an extension of the closed set and with another
CopyTracks ==
    {copy_track(p) : p \in {
        <<"2","0","1","7","/","v","0","1","-","a",".","m","p","3">>,
        <<"2","0","1","7","/","v","0","1","-","a",".","w","a","v">>,
        <<"d","/","a",".","m","p","3">>,
        <<"m","/">> \o Date8 \o <<"-","0","2","-","T",".","O","G","G">> }}

CopyInputs == UNION {[1..n -> CopyTracks] : n \in 0..MaxTracks}

(***************************************************************************)
(* The values of the variables before an operation is called               *)
(***************************************************************************)
NoResult == [kind |-> "NoResult", val |-> <<>>]

\* the classifier has not been called
IdleExtn ==
    /\ extn_str = <<>>
    /\ extn = NoResult
    /\ extn_text = <<>>
    /\ extn_again = NoResult

NoFic == [track_type |-> "None", index |-> 0, name |-> <<>>, extn |-> Placeholder]

IdleStem ==
    /\ stem = <<>>
    /\ fic = NoFic

IdleNew ==
    /\ new_arg = <<>>
    /\ new_fic = NoResult

IdleTree ==
    /\ root = <<>>
    /\ in_file = <<>>
    /\ sec = 1
    /\ trk = 1
    /\ tracklist = <<>>
    /\ title = None

IdleTrack ==
    /\ track_arg = <<>>
    /\ elem = NoElem
    /\ track_res = NoResult

IdleDur ==
    /\ ms = ZeroDuration
    /\ timecode = <<>>

IdleWidth ==
    /\ n_tracks = 0
    /\ width = 0
    /\ ordinal = 0
    /\ padded = <<>>

IdleTotal ==
    /\ tracks = <<>>
    /\ total = NoResult

IdleCopy ==
    /\ copy_tracks = <<>>
    /\ copy_width = 0
    /\ copy_pos = 0
    /\ copy_ok = <<>>
    /\ dest_filenames = <<>>
    /\ manifest = NoResult

(***************************************************************************)
(* The classifier run on one string: classify, render, classify again      *)
(***************************************************************************)
InitExtn ==
    /\ pc = "extn_start"
    /\ extn_str \in ExtnInputs
    /\ extn = NoResult
    /\ extn_text = <<>>
    /\ extn_again = NoResult
    /\ IdleStem /\ IdleNew /\ IdleTree
    /\ IdleTrack /\ IdleDur /\ IdleWidth /\ IdleTotal /\ IdleCopy

\* s.parse::<TrackExtension>()
CallFromStr ==
    /\ pc = "extn_start"
    /\ extn' = from_str(extn_str)
    /\ pc' = "extn_parsed"
    /\ UNCHANGED <<extn_str, extn_text, extn_again, stemVars, newVars, treeVars,
                 trackVars, durVars, widthVars, totalVars, copyVars>>

\* TrackExtension::Unknown(s.to_string()), built directly as the tests do
ConstructUnknown ==
    /\ pc = "extn_start"
    /\ extn' = Ok(Unknown(extn_str))
    /\ pc' = "extn_built"
    /\ UNCHANGED <<extn_str, extn_text, extn_again, stemVars, newVars, treeVars,
                 trackVars, durVars, widthVars, totalVars, copyVars>>

\* value.to_string()
CallToString ==
    /\ pc \in {"extn_parsed", "extn_built"}
    /\ extn.kind = "Ok"
    /\ extn_text' = to_string(extn.val)
    /\ pc' = IF pc = "extn_parsed" THEN "extn_rendered" ELSE "extn_built_rendered"
    /\ UNCHANGED <<extn_str, extn, extn_again, stemVars, newVars, treeVars,
                 trackVars, durVars, widthVars, totalVars, copyVars>>

\* text.parse::<TrackExtension>() on the rendered text
CallFromStrAgain ==
    /\ pc = "extn_rendered"
    /\ extn_again' = from_str(extn_text)
    /\ pc' = "extn_reparsed"
    /\ UNCHANGED <<extn_str, extn, extn_text, stemVars, newVars, treeVars,
                 trackVars, durVars, widthVars, totalVars, copyVars>>

NextExtn == CallFromStr \/ ConstructUnknown \/ CallToString \/ CallFromStrAgain

SpecExtn == InitExtn /\ [][NextExtn]_vars

(***************************************************************************)
(* The decomposition run on one stem                                       *)
(***************************************************************************)
InitStem ==
    /\ pc = "stem_start"
    /\ stem \in StemInputs
    /\ fic = NoFic
    /\ IdleExtn /\ IdleNew /\ IdleTree
    /\ IdleTrack /\ IdleDur /\ IdleWidth /\ IdleTotal /\ IdleCopy

\* Self::from_file_stem(name_part)
CallFromFileStem ==
    /\ pc = "stem_start"
    /\ fic' = from_file_stem(stem)
    /\ pc' = "stem_done"
    /\ UNCHANGED <<stem, extnVars, newVars, treeVars,
                 trackVars, durVars, widthVars, totalVars, copyVars>>

NextStem == CallFromFileStem

SpecStem == InitStem /\ [][NextStem]_vars

(***************************************************************************)
(* FilenameInfoComponents::new of either file run on one name              *)
(***************************************************************************)
InitNew ==
    /\ pc = "new_start"
    /\ new_arg \in FilenameInputs
    /\ new_fic = NoResult
    /\ IdleExtn /\ IdleStem /\ IdleTree
    /\ IdleTrack /\ IdleDur /\ IdleWidth /\ IdleTotal /\ IdleCopy

\* track_name_info::FilenameInfoComponents::new(filename)
CallNew ==
    /\ pc = "new_start"
    /\ new_fic' = new(new_arg)
    /\ pc' = "new_done"
    /\ UNCHANGED <<new_arg, extnVars, stemVars, treeVars,
                 trackVars, durVars, widthVars, totalVars, copyVars>>

\* xspf_parser::FilenameInfoComponents::new(filename)
CallXspfNew ==
    /\ pc = "new_start"
    /\ new_fic' = xspf_new(new_arg)
    /\ pc' = "xspf_new_done"
    /\ UNCHANGED <<new_arg, extnVars, stemVars, treeVars,
                 trackVars, durVars, widthVars, totalVars, copyVars>>

NextNew == CallNew \/ CallXspfNew

SpecNew == InitNew /\ [][NextNew]_vars

(***************************************************************************)
(* XspfPlaylist::from_xml_tree: one step for each child of the root and    *)
(* for each track element                                                  *)
(***************************************************************************)
InitTree ==
    /\ pc = "tree_loop"
    /\ root \in Roots
    /\ in_file = PlaylistFile
    /\ sec = 1
    /\ trk = 1
    /\ tracklist = <<>>
    /\ title = None
    /\ IdleExtn /\ IdleStem /\ IdleNew
    /\ IdleTrack /\ IdleDur /\ IdleWidth /\ IdleTotal /\ IdleCopy

\* tracklist.push(track)
push(list, track) == Append(list, track)

\* "title" => title = Some(format!("{0} - {1}", e_section.text(), filename))
TreeTitle ==
    /\ pc = "tree_loop"
    /\ sec <= Len(root)
    /\ root[sec].name = "title"
    /\ title' = Some(root[sec].text \o <<" ", "-", " ">> \o in_file)
    /\ sec' = sec + 1
    /\ UNCHANGED <<pc, root, in_file, trk, tracklist, extnVars, stemVars, newVars,
                 trackVars, durVars, widthVars, totalVars, copyVars>>

\* "trackList" => one turn of the loop over e_section.children(): a track is
\* pushed, an Err is passed over, a panic unwinds out of from_xml_tree
TreeTrack ==
    /\ pc = "tree_loop"
    /\ sec <= Len(root)
    /\ root[sec].name = "trackList"
    /\ trk <= Len(root[sec].children)
    /\ LET r == from_xml_elem(root[sec].children[trk])
       IN /\ pc' = IF r.kind = "Panic" THEN "tree_panicked" ELSE pc
          /\ tracklist' = IF r.kind = "Ok" THEN push(tracklist, r.val) ELSE tracklist
    /\ trk' = trk + 1
    /\ UNCHANGED <<root, in_file, sec, title, extnVars, stemVars, newVars,
                 trackVars, durVars, widthVars, totalVars, copyVars>>

\* the loop over the track elements is over
TreeTrackListEnd ==
    /\ pc = "tree_loop"
    /\ sec <= Len(root)
    /\ root[sec].name = "trackList"
    /\ trk > Len(root[sec].children)
    /\ sec' = sec + 1
    /\ trk' = 1
    /\ UNCHANGED <<pc, root, in_file, tracklist, title, extnVars, stemVars, newVars,
                 trackVars, durVars, widthVars, totalVars, copyVars>>

\* _ => { /* Unhandled */ }
TreeUnhandled ==
    /\ pc = "tree_loop"
    /\ sec <= Len(root)
    /\ root[sec].name \notin {"title", "trackList"}
    /\ sec' = sec + 1
    /\ UNCHANGED <<pc, root, in_file, trk, tracklist, title, extnVars, stemVars, newVars,
                 trackVars, durVars, widthVars, totalVars, copyVars>>

\* XspfPlaylist { tracks: tracklist, title: title }
TreeReturn ==
    /\ pc = "tree_loop"
    /\ sec > Len(root)
    /\ pc' = "tree_done"
    /\ UNCHANGED <<treeVars, extnVars, stemVars, newVars,
                 trackVars, durVars, widthVars, totalVars, copyVars>>

Init == InitTree

Next == TreeTitle \/ TreeTrack \/ TreeTrackListEnd \/ TreeUnhandled \/ TreeReturn

Spec == Init /\ [][Next]_vars

\* XspfPlaylist::len of the playlist returned
len == Len(tracklist)

(***************************************************************************)
(* Track::from_uri and from_filepath run on one string, from_xml_elem on   *)
(* one track element                                                       *)
(***************************************************************************)
InitTrack ==
    /\ pc = "track_start"
    /\ \/ track_arg \in UriInputs /\ elem = NoElem
       \/ track_arg = <<>> /\ elem \in ElemInputs
    /\ track_res = NoResult
    /\ IdleExtn /\ IdleStem /\ IdleNew /\ IdleTree
    /\ IdleDur /\ IdleWidth /\ IdleTotal /\ IdleCopy

\* Track::from_uri(uri)
CallFromUri ==
    /\ pc = "track_start"
    /\ elem = NoElem
    /\ track_res' = from_uri(track_arg)
    /\ pc' = "uri_done"
    /\ UNCHANGED <<track_arg, elem, extnVars, stemVars, newVars, treeVars,
                   durVars, widthVars, totalVars, copyVars>>

\* Track::from_filepath(path)
CallFromFilepath ==
    /\ pc = "track_start"
    /\ elem = NoElem
    /\ track_res' = from_filepath(track_arg)
    /\ pc' = "filepath_done"
    /\ UNCHANGED <<track_arg, elem, extnVars, stemVars, newVars, treeVars,
                   durVars, widthVars, totalVars, copyVars>>

\* Track::from_xml_elem(e_track)
CallFromXmlElem ==
    /\ pc = "track_start"
    /\ track_arg = <<>>
    /\ track_res' = from_xml_elem(elem)
    /\ pc' = "elem_done"
    /\ UNCHANGED <<track_arg, elem, extnVars, stemVars, newVars, treeVars,
                   durVars, widthVars, totalVars, copyVars>>

NextTrack == CallFromUri \/ CallFromFilepath \/ CallFromXmlElem

SpecTrack == InitTrack /\ [][NextTrack]_vars

(***************************************************************************)
(* copy_files_mode on a playlist of n_tracks tracks: the width, then the   *)
(* ordinal of each track                                                   *)
(***************************************************************************)
InitWidth ==
    /\ pc = "width_start"
    /\ n_tracks \in PlaylistLens
    /\ width = 0
    /\ ordinal = 0
    /\ padded = <<>>
    /\ IdleExtn /\ IdleStem /\ IdleNew /\ IdleTree
    /\ IdleTrack /\ IdleDur /\ IdleTotal /\ IdleCopy

\* let track_index_width = xspf.track_index_width()
CallTrackIndexWidth ==
    /\ pc = "width_start"
    /\ width' = track_index_width(n_tracks)
    /\ pc' = "width_done"
    /\ UNCHANGED <<n_tracks, ordinal, padded, extnVars, stemVars, newVars,
                   treeVars, trackVars, durVars, totalVars, copyVars>>

\* one turn of the loop over xspf.tracks.iter().enumerate(): the ordinal
\* track_idx + 1 as it is written into dst_filename
FormatTrackIdx ==
    /\ pc = "width_done"
    /\ \E track_idx \in 0..(n_tracks - 1) :
         /\ ordinal' = track_idx + 1
         /\ padded' = format_zero_padded(track_idx + 1, width)
    /\ pc' = "ordinal_done"
    /\ UNCHANGED <<n_tracks, width, extnVars, stemVars, newVars,
                   treeVars, trackVars, durVars, totalVars, copyVars>>

NextWidth == CallTrackIndexWidth \/ FormatTrackIdx

SpecWidth == InitWidth /\ [][NextWidth]_vars

(***************************************************************************)
(* TrackDuration::to_timecode run on one duration                          *)
(***************************************************************************)
InitDur ==
    /\ pc = "dur_start"
    /\ ms \in DurInputs
    /\ timecode = <<>>
    /\ IdleExtn /\ IdleStem /\ IdleNew /\ IdleTree
    /\ IdleTrack /\ IdleWidth /\ IdleTotal /\ IdleCopy

\* TrackDuration(ms).to_timecode()
CallToTimecode ==
    /\ pc = "dur_start"
    /\ timecode' = to_timecode(ms)
    /\ pc' = "timecode_done"
    /\ UNCHANGED <<ms, extnVars, stemVars, newVars, treeVars, trackVars,
                   widthVars, totalVars, copyVars>>

NextDur == CallToTimecode

SpecDur == InitDur /\ [][NextDur]_vars

(***************************************************************************)
(* total_duration_mode: xspf.total_duration() on the tracks of a playlist  *)
(***************************************************************************)
InitTotal ==
    /\ pc = "total_start"
    /\ tracks \in TotalInputs
    /\ total = NoResult
    /\ IdleExtn /\ IdleStem /\ IdleNew /\ IdleTree
    /\ IdleTrack /\ IdleDur /\ IdleWidth /\ IdleCopy

\* let result = xspf.total_duration(), in a build with the overflow checks
\* of + and in a build without them
CallTotalDuration ==
    /\ pc = "total_start"
    /\ \E checked \in BOOLEAN : total' = total_duration(tracks, checked)
    /\ pc' = "total_done"
    /\ UNCHANGED <<tracks, extnVars, stemVars, newVars, treeVars, trackVars,
                   durVars, widthVars, copyVars>>

NextTotal == CallTotalDuration

SpecTotal == InitTotal /\ [][NextTotal]_vars

(***************************************************************************)
(* copy_files_mode: the loop over the tracks, then the manifest            *)
(***************************************************************************)
InitCopy ==
    /\ pc = "copy_start"
    /\ copy_tracks \in CopyInputs
    /\ copy_width = 0
    /\ copy_pos = 0
    /\ copy_ok = <<>>
    /\ dest_filenames = <<>>
    /\ manifest = NoResult
    /\ IdleExtn /\ IdleStem /\ IdleNew /\ IdleTree
    /\ IdleTrack /\ IdleDur /\ IdleWidth /\ IdleTotal

\* let track_index_width = xspf.track_index_width();
\* let mut dest_filenames = Vec::new()
CopyBegin ==
    /\ pc = "copy_start"
    /\ copy_width' = track_index_width(Len(copy_tracks))
    /\ pc' = "copy_loop"
    /\ UNCHANGED <<copy_tracks, copy_pos, copy_ok, dest_filenames, manifest,
                   extnVars, stemVars, newVars, treeVars, trackVars, durVars,
                   widthVars, totalVars>>

\* one turn of the loop with process::exit(1) in the Err arm
CopyTrackOrExit ==
    /\ pc = "copy_loop"
    /\ copy_pos < Len(copy_tracks)
    /\ \E copied \in BOOLEAN :
         /\ copy_ok' = Append(copy_ok, copied)
         /\ dest_filenames' =
                IF copied
                THEN Append(dest_filenames,
                            dst_filename(copy_tracks[copy_pos + 1], copy_pos,
                                         copy_width))
                ELSE dest_filenames
         /\ pc' = IF copied THEN "copy_loop" ELSE "copy_exit"
    /\ copy_pos' = copy_pos + 1
    /\ UNCHANGED <<copy_tracks, copy_width, manifest,
                   extnVars, stemVars, newVars, treeVars, trackVars, durVars,
                   widthVars, totalVars>>

\* one turn of the loop over xspf.tracks.iter().enumerate(): the name is
\* built, fs::copy returns Ok and the name is pushed, or Err and it is not
CopyTrack ==
    /\ pc = "copy_loop"
    /\ copy_pos < Len(copy_tracks)
    /\ \E copied \in BOOLEAN :
         /\ copy_ok' = Append(copy_ok, copied)
         /\ dest_filenames' =
                IF copied
                THEN Append(dest_filenames,
                            dst_filename(copy_tracks[copy_pos + 1], copy_pos,
                                         copy_width))
                ELSE dest_filenames
    /\ copy_pos' = copy_pos + 1
    /\ UNCHANGED <<pc, copy_tracks, copy_width, manifest,
                   extnVars, stemVars, newVars, treeVars, trackVars, durVars,
                   widthVars, totalVars>>

\* after the loop: write_copied_files_manifest(in_file, out, &dest_filenames)
CopyManifest ==
    /\ pc = "copy_loop"
    /\ copy_pos = Len(copy_tracks)
    /\ manifest' \in write_copied_files_manifest(dest_filenames)
    /\ pc' = "copy_done"
    /\ UNCHANGED <<copy_tracks, copy_width, copy_pos, copy_ok, dest_filenames,
                   extnVars, stemVars, newVars, treeVars, trackVars, durVars,
                   widthVars, totalVars>>

NextCopy == CopyBegin \/ CopyTrack \/ CopyManifest

\* the steps of copy_files_mode are taken one after the other to its end
SpecCopy == InitCopy /\ [][NextCopy]_vars /\ WF_vars(NextCopy)

(***************************************************************************)
(* Names given to FilenameInfoComponents::new directly, and playlists      *)
(***************************************************************************)
InitInfo == InitNew \/ InitTree

NextInfo == NextNew \/ Next

SpecInfo == InitInfo /\ [][NextInfo]_vars

(***************************************************************************)
(* Properties of the extension classifier                                  *)
(***************************************************************************)
ToUpperChar(c) == IF IsIn(c, LowerChars) THEN UpperChars[IndexOf(c, LowerChars)] ELSE c

\* s spells w with each letter in either case
IsCasingOf(s, w) ==
    /\ Len(s) = Len(w)
    /\ \A i \in 1..Len(w) : s[i] = w[i] \/ s[i] = ToUpperChar(w[i])

\* the texts test_track_extension_enum_to_string expects
CanonicalName(tag) ==
    CASE tag = "mp3"  -> <<"m","p","3">>
      [] tag = "flac" -> <<"f","l","a","c">>
      [] tag = "ogg"  -> <<"o","g","g">>
      [] tag = "m4a"  -> <<"m","4","a">>
      [] tag = "mp4"  -> <<"m","p","4">>
      [] tag = "mkv"  -> <<"m","k","v">>

InClosedSet(s) == \E n \in ExtnNames : s = CanonicalName(n)

\* C5: every upper/lower-casing of mp3, flac, ogg, m4a, mp4, mkv classifies
\* to the recognized variant its all-lowercase spelling classifies to.
C5_CaseInsensitive ==
    pc = "extn_parsed" =>
        \A n \in ExtnNames :
            IsCasingOf(extn_str, CanonicalName(n)) =>
                /\ extn.kind = "Ok"
                /\ extn.val = Variant(n)
                /\ from_str(CanonicalName(n)) = Ok(Variant(n))

C5_Witness ==
    /\ pc = "extn_parsed"
    /\ extn.kind = "Ok"
    /\ \E n \in ExtnNames :
        /\ IsCasingOf(extn_str, CanonicalName(n))
        /\ extn_str # CanonicalName(n)
        /\ extn.val = Variant(n)

\* C6: a non-empty string whose lowercase form is outside the closed set
\* classifies to Unknown carrying the string itself, original casing kept.
C6_UnknownKeepsOriginal ==
    (pc = "extn_parsed" /\ extn_str # <<>> /\ ~InClosedSet(to_lowercase(extn_str))) =>
        /\ extn.kind = "Ok"
        /\ extn.val = Unknown(extn_str)

C6_Witness ==
    /\ pc = "extn_parsed"
    /\ extn_str # to_lowercase(extn_str)
    /\ extn.kind = "Ok"
    /\ extn.val = Unknown(extn_str)

\* C7: the empty string, and only the empty string, classifies to the error
\* "No Extension?"; it never yields a variant.
C7_OnlyEmptyFails ==
    pc = "extn_parsed" =>
        /\ extn.kind \in {"Ok", "Err"}
        /\ (extn.kind = "Err") <=> (extn_str = <<>>)
        /\ extn.kind = "Err" => extn.val = "No Extension?"

C7_Witness ==
    /\ pc = "extn_parsed"
    /\ extn_str = <<>>
    /\ extn.kind = "Err"

\* C8: to_string gives the payload of Unknown(p) and the canonical lowercase
\* name of a recognized variant; so rendering the classification of a
\* non-empty string outside the closed set gives that string back.
C8_Render ==
    pc \in {"extn_rendered", "extn_built_rendered"} =>
        /\ extn.val.tag = "Unknown" => extn_text = extn.val.s
        /\ extn.val.tag \in ExtnNames => extn_text = CanonicalName(extn.val.tag)
        /\ (pc = "extn_rendered" /\ ~InClosedSet(to_lowercase(extn_str))) =>
                extn_text = extn_str

C8_Witness ==
    /\ pc = "extn_rendered"
    /\ extn.val.tag = "Unknown"
    /\ extn_str # to_lowercase(extn_str)
    /\ extn_text = extn_str

\* C9: classifying the rendered text of a classification gives the same
\* classification again.
C9_Idempotent ==
    pc = "extn_reparsed" =>
        /\ extn_again.kind = "Ok"
        /\ extn_again.val = extn.val

C9_Witness ==
    /\ pc = "extn_reparsed"
    /\ extn.val.tag = "Unknown"
    /\ extn_again.kind = "Ok"
    /\ extn_again.val = extn.val

(***************************************************************************)
(* Properties of the decomposition of a stem                               *)
(***************************************************************************)
IsAsciiDigit(c) == IsIn(c, AsciiDigits)

IsAsciiLetter(c) == IsIn(c, UpperChars) \/ IsIn(c, LowerChars)

\* the readings of rest as <digits>, an optional letter and an optional
\* -<non-empty title>: the digits, whether a letter follows, the title.
\* Digits and letters are ASCII; a title is one line of text.
FormsAfter(rest) ==
    {f \in [n : 1..Len(rest), l : {0, 1}] :
        /\ \A i \in 1..f.n : IsAsciiDigit(rest[i])
        /\ f.l = 1 => (f.n < Len(rest) /\ IsAsciiLetter(rest[f.n + 1]))
        /\ \/ f.n + f.l = Len(rest)
           \/ /\ f.n + f.l + 2 <= Len(rest)
              /\ rest[f.n + f.l + 1] = "-"
              /\ \A i \in (f.n + f.l + 2)..Len(rest) : rest[i] # "\n"}

FormOf(rest, f) ==
    [digits |-> SubSeq(rest, 1, f.n),
     letter |-> f.l = 1,
     title  |-> IF f.n + f.l = Len(rest) THEN None ELSE Some(Drop(rest, f.n + f.l + 1))]

\* v<digits>, vln_layering-<digits>, vln_improv_<digits>
ViolinFormPrefixes == {
    <<"v">>,
    <<"v","l","n","_","l","a","y","e","r","i","n","g","-">>,
    <<"v","l","n","_","i","m","p","r","o","v","_">> }

ViolinForms(s) ==
    UNION {{FormOf(Drop(s, Len(p)), f) : f \in FormsAfter(Drop(s, Len(p)))} :
              p \in {x \in ViolinFormPrefixes : HasPrefix(s, x)}}

\* <8 digits><optional letter>-<digits>-<non-empty title>
MuseForms(s) ==
    IF ~(Len(s) >= 8 /\ \A i \in 1..8 : IsAsciiDigit(s[i])) THEN {}
    ELSE LET l == IF Len(s) > 8 /\ IsAsciiLetter(s[9]) THEN 1 ELSE 0
             rest == Drop(s, 8 + l + 1)
         IN IF ~(Len(s) > 8 + l /\ s[8 + l + 1] = "-") THEN {}
            ELSE {FormOf(rest, f) : f \in {x \in FormsAfter(rest) :
                        x.l = 0 /\ x.n < Len(rest)}}

\* the numeral of a natural number
RECURSIVE Decimal(_)
Decimal(n) ==
    IF n < 10 THEN <<AsciiDigits[n + 1]>>
    ELSE Decimal(n \div 10) \o <<AsciiDigits[(n % 10) + 1]>>

\* the numeral's value is at most 2147483647
FitsI32(d) == \E n \in {Len(StripZeros(d))} :
    \/ n < 10
    \/ /\ n = 10
       /\ LET z == StripZeros(d)
              m == Decimal(I32_MAX)
          IN \A i \in 1..10 :
                (\A j \in 1..(i - 1) : z[j] = m[j]) =>
                    IndexOf(z[i], AsciiDigits) <= IndexOf(m[i], AsciiDigits)

TitleOrUntitled(f) == IF f.title.kind = "Some" THEN f.title.val ELSE Untitled

\* C2: decomposition is total, and a stem that neither recognizer matches
\* gives track type Unknown, index 0 and the whole stem as the name.
C2_Fallback ==
    pc = "stem_done" =>
        /\ fic.track_type \in {"UnknownType", "ViolinLayering", "MuseScore"}
        /\ (RE_VIOLIN_LAYERING(stem) = None /\ RE_MUSE_SCORE(stem) = None) =>
                /\ fic.track_type = "UnknownType"
                /\ fic.index = 0
                /\ fic.name = stem

C2_Witness ==
    /\ pc = "stem_done"
    /\ RE_VIOLIN_LAYERING(stem) = None /\ RE_MUSE_SCORE(stem) = None
    /\ HasPrefix(stem, <<"v">>) /\ Len(stem) > 2
    /\ fic.track_type = "UnknownType" /\ fic.index = 0 /\ fic.name = stem

\* C3 as stated: every stem v<digits>, vln_layering-<digits> or
\* vln_improv_<digits> with an optional letter and an optional -<title>
\* gives ViolinLayering, the digits' value as index, and the title (or
\* "<Untitled>") as name.
C3_AsStated ==
    pc = "stem_done" =>
        \A f \in ViolinForms(stem) :
            /\ fic.track_type = "ViolinLayering"
            /\ Decimal(fic.index) = StripZeros(f.digits)
            /\ fic.name = TitleOrUntitled(f)

\* C3 amended: such a stem gives ViolinLayering; the index is the digits'
\* value when that is at most 2147483647 and 0 when it is larger; the letter
\* is in neither index nor name; the name is the title verbatim, or
\* "<Untitled>" without a title.
C3_Violin ==
    pc = "stem_done" =>
        \A f \in ViolinForms(stem) :
            /\ fic.track_type = "ViolinLayering"
            /\ FitsI32(f.digits) => Decimal(fic.index) = StripZeros(f.digits)
            /\ ~FitsI32(f.digits) => fic.index = 0
            /\ fic.name = TitleOrUntitled(f)

C3_Witness ==
    /\ pc = "stem_done"
    /\ \E f \in ViolinForms(stem) :
        /\ f.letter
        /\ f.title.kind = "Some"
        /\ fic.track_type = "ViolinLayering"
        /\ fic.index = 5
        /\ fic.name = f.title.val

\* C4 as stated: every stem <8 digits><optional letter>-<digits>-<title>
\* gives MuseScore, the value of the second digit group as index and
\* everything after the second separator as name.
C4_AsStated ==
    pc = "stem_done" =>
        \A f \in MuseForms(stem) :
            /\ fic.track_type = "MuseScore"
            /\ Decimal(fic.index) = StripZeros(f.digits)
            /\ fic.name = f.title.val
            /\ DOMAIN fic = {"track_type", "index", "name", "extn"}

\* C4 amended: such a stem gives MuseScore; the index is the value of the
\* second digit group when that is at most 2147483647 and 0 when it is
\* larger; the name is everything after the second separator verbatim; the
\* result has no field for the date.
C4_Muse ==
    pc = "stem_done" =>
        \A f \in MuseForms(stem) :
            /\ fic.track_type = "MuseScore"
            /\ FitsI32(f.digits) => Decimal(fic.index) = StripZeros(f.digits)
            /\ ~FitsI32(f.digits) => fic.index = 0
            /\ fic.name = f.title.val
            /\ DOMAIN fic = {"track_type", "index", "name", "extn"}

C4_Witness ==
    /\ pc = "stem_done"
    /\ \E f \in MuseForms(stem) :
        /\ \E i \in 1..Len(f.title.val) : f.title.val[i] = "-"
        /\ fic.track_type = "MuseScore"
        /\ fic.index = 2
        /\ fic.name = f.title.val

(***************************************************************************)
(* Properties of the playlist build                                        *)
(***************************************************************************)
\* the track elements of the document's trackList
TrackElemsOf(r) ==
    LET at == CHOOSE i \in 1..Len(r) : r[i].name = "trackList"
    IN r[at].children

HasLocation(e) == e.location.kind = "Some"

\* a file:/// URI of a file with a stem and an extension inside a directory
WellFormedLocation(uri) ==
    /\ HasPrefix(uri, FILE_URI_PREFIX)
    /\ LET segs == split(Drop(uri, Len(FILE_URI_PREFIX)), "/")
           last == segs[Len(segs)]
       IN /\ Len(segs) >= 2
          /\ \E i \in 2..(Len(last) - 1) : last[i] = "."

C1_Hypothesis(elems) ==
    \A i \in 1..Len(elems) :
        HasLocation(elems[i]) => WellFormedLocation(elems[i].location.val)

\* the extension of the file a location names
ExtensionOfLocation(uri) ==
    LET segs == split(uri, "/") IN extension(segs[Len(segs)])

\* the elements that have a location, in document order
Kept(elems) == SelectSeq(elems, HasLocation)

TracksAre(elems) ==
    /\ Len(tracklist) = Len(elems)
    /\ \A i \in 1..Len(elems) :
         tracklist[i].path = Drop(elems[i].location.val, Len(FILE_URI_PREFIX))

\* C1 as stated: when every track element either lacks a location or carries
\* a well-formed file:/// location, from_xml_tree returns, its tracks are
\* exactly the elements that have a location, in document order, and len()
\* is the number of elements kept.
C1_AsStated ==
    (/\ pc \in {"tree_done", "tree_panicked"}
     /\ C1_Hypothesis(TrackElemsOf(root)))
    => /\ pc = "tree_done"
       /\ TracksAre(Kept(TrackElemsOf(root)))
       /\ len = Len(Kept(TrackElemsOf(root)))

\* C1 on the locations whose extension is in the table of xspf_parser.rs:
\* there the build returns and the tracks are the elements with a location,
\* in document order.
C1_OnParserExtensions ==
    (/\ pc \in {"tree_done", "tree_panicked"}
     /\ C1_Hypothesis(TrackElemsOf(root))
     /\ \A i \in 1..Len(TrackElemsOf(root)) :
          HasLocation(TrackElemsOf(root)[i]) =>
            \E n \in xspf_ExtnNames :
              ExtensionOfLocation(TrackElemsOf(root)[i].location.val)
                = Some(VariantName(n)))
    => /\ pc = "tree_done"
       /\ TracksAre(Kept(TrackElemsOf(root)))
       /\ len = Len(Kept(TrackElemsOf(root)))

\* a build that returned two tracks after passing over the element between
\* them
C1_SkipBetween ==
    /\ pc = "tree_done"
    /\ C1_Hypothesis(TrackElemsOf(root))
    /\ Len(TrackElemsOf(root)) = 3
    /\ ~HasLocation(TrackElemsOf(root)[2])
    /\ len = 2
    /\ tracklist[1].path # tracklist[2].path

(***************************************************************************)
(* Properties of the finished records                                      *)
(***************************************************************************)
\* C10: FilenameInfoComponents::new, of either file, panics or returns a
\* record whose extn is not Placeholder, and no track of a playlist under
\* construction or returned has info.extn = Placeholder.
C10_NoPlaceholder ==
    /\ pc \in {"new_done", "xspf_new_done"} =>
         \/ new_fic.kind = "Panic"
         \/ /\ new_fic.kind = "Ok"
            /\ new_fic.val.extn.tag # "Placeholder"
    /\ \A i \in 1..Len(tracklist) : tracklist[i].info.extn.tag # "Placeholder"

\* new has returned a record for a name whose extension reads "Placeholder"
C10_Witness ==
    /\ pc = "new_done"
    /\ new_fic.kind = "Ok"
    /\ extension(new_arg) = Some(<<"P","l","a","c","e","h","o","l","d","e","r">>)
    /\ new_fic.val.extn.tag = "Unknown"

(***************************************************************************)
(* Properties of the track builder                                         *)
(***************************************************************************)
\* s begins with the eight characters f i l e : / / /
BeginsWithFileScheme(s) ==
    /\ Len(s) >= 8
    /\ <<s[1], s[2], s[3], s[4], s[5], s[6], s[7], s[8]>>
         = <<"f","i","l","e",":","/","/","/">>

\* C11: from_uri returns the error "Unsupported URI - Must start with
\* 'file:///'" and no Track for every URI that does not begin with file:///,
\* and for every URI that begins with it the result (a Track or a panic) is
\* that of from_filepath on the URI without its first eight characters.
C11_FromUri ==
    pc = "uri_done" =>
        IF BeginsWithFileScheme(track_arg)
        THEN track_res = from_filepath(SubSeq(track_arg, 9, Len(track_arg)))
        ELSE track_res = Err("Unsupported URI - Must start with 'file:///'")

\* from_uri has built the Track of file:///2017/v01-a.mp3
C11_Witness ==
    /\ pc = "uri_done"
    /\ track_arg = LocViolin
    /\ track_res.kind = "Ok"
    /\ track_res.val.path = <<"2","0","1","7","/","v","0","1","-","a",".","m","p","3">>
    /\ track_res.val.date = <<"2","0","1","7">>

\* from_uri has refused file://d/a.mp3, which lacks the third slash
C11_Refused ==
    /\ pc = "uri_done"
    /\ track_arg = <<"f","i","l","e",":","/","/","d","/","a",".","m","p","3">>
    /\ track_res.kind = "Err"

\* the duration the claim expects for an element: Some(n) when the duration
\* child is present and its text parses as the integer n, unset otherwise
ExpectedDuration(e) ==
    IF e.duration.kind = "Some" /\ parse_i64(e.duration.val).kind = "Ok"
    THEN Some(parse_i64(e.duration.val).val)
    ELSE None

\* the extension of the location is one of the names of xspf_parser.rs
HasParserExtension(uri) ==
    \E n \in xspf_ExtnNames : ExtensionOfLocation(uri) = Some(VariantName(n))

\* C12 as stated: from_xml_elem gives an error for an element without a
\* location; for an element with a well-formed file:/// location it gives a
\* Track whose duration is Some(n) exactly when the duration child is
\* present and its text parses as the integer n, and unset otherwise.
C12_AsStated ==
    pc = "elem_done" =>
        /\ ~HasLocation(elem) => track_res.kind = "Err"
        /\ (HasLocation(elem) /\ WellFormedLocation(elem.location.val)) =>
             /\ track_res.kind = "Ok"
             /\ track_res.val.duration = ExpectedDuration(elem)

\* C12 on the locations whose extension is in the table of xspf_parser.rs
C12_OnParserExtensions ==
    pc = "elem_done" =>
        /\ ~HasLocation(elem) => track_res.kind = "Err"
        /\ (/\ HasLocation(elem)
            /\ WellFormedLocation(elem.location.val)
            /\ HasParserExtension(elem.location.val)) =>
             /\ track_res.kind = "Ok"
             /\ track_res.val.duration = ExpectedDuration(elem)

\* a Track was built although the text of its duration is not an integer
C12_UnparsableKept ==
    /\ pc = "elem_done"
    /\ elem.duration = Some(<<"a","b","c">>)
    /\ track_res.kind = "Ok"
    /\ track_res.val.duration = None

(***************************************************************************)
(* Properties of the track index width                                     *)
(***************************************************************************)
\* C13: track_index_width is 2 for a playlist of 0 to 99 tracks, 3 for 100
\* to 999 tracks and 4 for 1000 tracks or more.
C13_WidthSteps ==
    pc \in {"width_done", "ordinal_done"} =>
        /\ (0 <= n_tracks /\ n_tracks <= 99) => width = 2
        /\ (100 <= n_tracks /\ n_tracks <= 999) => width = 3
        /\ n_tracks >= 1000 => width = 4

\* the width of a playlist of 100 tracks has been computed
C13_Witness ==
    /\ pc = "width_done"
    /\ n_tracks = 100
    /\ width = 3

TruncatedTimecode(d) ==
    LET total_secs == div_small(bits_of_digits(d.digits), 1000).q
        dm == div_small(total_secs, 60)
    IN fmt_02(FALSE, digits_of_bits(dm.q))
         \o <<":">> \o fmt_02(FALSE, fmt_display(dm.r))

\* d is below 2^53, where every i64 is an f64
ExactInF64(d) == bit_length(bits_of_digits(d.digits)) <= 53

\* C16: to_timecode of every non-negative ms renders ms div 60000 minutes
\* and (ms div 1000) mod 60 seconds, two digits or more each, the part of a
\* second cut off and never rounded up, the minutes not wrapped.
C16_AsStated ==
    (pc = "timecode_done" /\ ~ms.neg) => timecode = TruncatedTimecode(ms)

\* the same of the durations below 2^53
C16_BelowTwo53 ==
    (pc = "timecode_done" /\ ~ms.neg /\ ExactInF64(ms))
        => timecode = TruncatedTimecode(ms)

\* 6 000 000 ms renders 100:00
C16_HundredMinutes ==
    (pc = "timecode_done" /\ ms.digits = <<"6","0","0","0","0","0","0">>)
        => timecode = <<"1","0","0",":","0","0">>

\* a duration over 2^53 whose seconds are rounded up
C16_RoundedUp ==
    /\ pc = "timecode_done"
    /\ ~ms.neg
    /\ ~ExactInF64(ms)
    /\ timecode # TruncatedTimecode(ms)

(***************************************************************************)
(* XspfPlaylist::total_duration                                            *)
(***************************************************************************)
\* the tracks of ts that have a duration, and those that have none
Counted(ts) == {i \in 1..Len(ts) : ts[i].duration.kind = "Some"}

Uncounted(ts) == {i \in 1..Len(ts) : ts[i].duration.kind = "None"}

\* the sum, exact on 72 bits, of the milliseconds of the first n tracks
RECURSIVE WideSum(_, _)
WideSum(ts, n) ==
    IF n = 0 THEN [i \in 1..72 |-> 0]
    ELSE IF ts[n].duration.kind = "None" THEN WideSum(ts, n - 1)
    ELSE add_bits(WideSum(ts, n - 1), to_twos(ts[n].duration.val, 72))

\* a value on 72 bits that is a value of i64
FitsI64(v) == \A i \in 64..72 : v[i] = v[64]

\* C15: total_duration returns the sum of the milliseconds of the tracks
\* that have a duration and the number of tracks that have none, and
\* counted + uncounted = len().
C15_AsStated ==
    pc = "total_done" =>
        /\ total.kind = "Ok"
        /\ total.val.duration = from_twos(WideSum(tracks, Len(tracks)))
        /\ total.val.uncounted = Cardinality(Uncounted(tracks))
        /\ Cardinality(Counted(tracks)) + total.val.uncounted = Len(tracks)

\* the same of the playlists whose sums stay in i64, track after track
C15_WhileInI64 ==
    (pc = "total_done" /\ \A n \in 1..Len(tracks) : FitsI64(WideSum(tracks, n)))
        =>
        /\ total.kind = "Ok"
        /\ total.val.duration = from_twos(WideSum(tracks, Len(tracks)))
        /\ total.val.uncounted = Cardinality(Uncounted(tracks))
        /\ Cardinality(Counted(tracks)) + total.val.uncounted = Len(tracks)

\* durations [1000ms, None, 2000ms] give 3000ms and one track uncounted
C15_Example ==
    /\ pc = "total_done"
    /\ Len(tracks) = 3
    /\ tracks[1].duration = Some([neg |-> FALSE, digits |-> <<"1","0","0","0">>])
    /\ tracks[2].duration = None
    /\ tracks[3].duration = Some([neg |-> FALSE, digits |-> <<"2","0","0","0">>])
    /\ total = Ok([duration |-> [neg |-> FALSE, digits |-> <<"3","0","0","0">>],
                   uncounted |-> 1])

\* a sum that leaves i64: no result in a build with overflow checks
C15_Panics ==
    /\ pc = "total_done"
    /\ total = Panic

\* a sum that leaves i64: another number in a build without them
C15_Wraps ==
    /\ pc = "total_done"
    /\ total.kind = "Ok"
    /\ total.val.duration # from_twos(WideSum(tracks, Len(tracks)))

(***************************************************************************)
(* Track::from_filepath                                                    *)
(***************************************************************************)
\* s with every %20 read as a space
RECURSIVE PercentDecoded(_)
PercentDecoded(s) ==
    IF s = <<>> THEN <<>>
    ELSE IF HasPrefix(s, <<"%","2","0">>)
    THEN <<" ">> \o PercentDecoded(Drop(s, 3))
    ELSE <<s[1]>> \o PercentDecoded(Drop(s, 1))

HasEscape(s) == \E i \in 1..Len(s) : HasPrefix(Drop(s, i - 1), <<"%","2","0">>)

\* the segments of a path
Segments(p) == split(p, "/")

LastSegment(p) == Segments(p)[Len(Segments(p))]

\* C17: from_filepath percent-decodes its input: the path and the filename
\* of the Track hold the decoded character and not the escape sequence.
C17_AsStated ==
    (pc = "filepath_done" /\ track_res.kind = "Ok")
        => /\ track_res.val.path = PercentDecoded(track_arg)
           /\ track_res.val.filename = LastSegment(PercentDecoded(track_arg))
           /\ ~HasEscape(track_res.val.path)
           /\ ~HasEscape(track_res.val.filename)

\* a Track that keeps the escape sequence in its path and its filename
C17_EscapeKept ==
    /\ pc = "filepath_done"
    /\ track_res.kind = "Ok"
    /\ HasEscape(track_arg)
    /\ track_res.val.path = track_arg
    /\ track_res.val.filename = LastSegment(track_arg)

\* the path and the filename are those given, character for character
C17_PathAsGiven ==
    (pc = "filepath_done" /\ track_res.kind = "Ok")
        => /\ track_res.val.path = track_arg
           /\ track_res.val.filename = LastSegment(track_arg)

\* C18: from_filepath splits the path on '/': with two segments or more the
\* filename is the last segment, the date the one before it and the duration
\* is unset; with fewer than two segments construction panics.
C18_AsStated ==
    pc = "filepath_done" =>
        IF Len(Segments(track_arg)) >= 2
        THEN /\ track_res.kind = "Ok"
             /\ track_res.val.filename = LastSegment(track_arg)
             /\ track_res.val.date =
                    Segments(track_arg)[Len(Segments(track_arg)) - 1]
             /\ track_res.val.duration = None
        ELSE track_res = Panic

\* the filename has a stem and one of the extensions of the parser
ParserFilename(name) ==
    /\ file_stem(name).kind = "Some"
    /\ extension(name).kind = "Some"
    /\ \E n \in xspf_ExtnNames : extension(name).val = VariantName(n)

\* the same of the paths whose filename has a stem and an extension of the
\* parser, and of the paths of fewer than two segments
C18_OnParserFilenames ==
    (pc = "filepath_done"
        /\ (Len(Segments(track_arg)) >= 2 => ParserFilename(LastSegment(track_arg))))
        =>
        IF Len(Segments(track_arg)) >= 2
        THEN /\ track_res.kind = "Ok"
             /\ track_res.val.filename = LastSegment(track_arg)
             /\ track_res.val.date =
                    Segments(track_arg)[Len(Segments(track_arg)) - 1]
             /\ track_res.val.duration = None
        ELSE track_res = Panic

\* a path of two segments whose filename has no extension: a panic
C18_NoExtensionPanics ==
    /\ pc = "filepath_done"
    /\ Len(Segments(track_arg)) >= 2
    /\ file_stem(LastSegment(track_arg)).kind = "Some"
    /\ extension(LastSegment(track_arg)).kind = "None"
    /\ track_res = Panic

(***************************************************************************)
(* XspfPlaylist::from_xml_tree: the title                                  *)
(***************************************************************************)
\* the title elements of a document
TitlesOf(r) == SelectSeq(r, LAMBDA e : e.name = "title")

\* C19: with a title element in the document the title of the playlist is
\* the text of that element as supplied, without the filename; with none
\* the title is unset.
C19_AsStated ==
    pc = "tree_done" =>
        IF TitlesOf(root) = <<>> THEN title = None
        ELSE title = Some(TitlesOf(root)[Len(TitlesOf(root))].text)

\* the title stored: the text, " - " and the filename
C19_FilenameAppended ==
    pc = "tree_done" =>
        IF TitlesOf(root) = <<>> THEN title = None
        ELSE title = Some(TitlesOf(root)[Len(TitlesOf(root))].text
                            \o <<" ", "-", " ">> \o in_file)

\* a playlist returned with the filename in its title
C19_Reached ==
    /\ pc = "tree_done"
    /\ TitlesOf(root) # <<>>
    /\ title = Some(<<"M","y"," ","-"," ">> \o PlaylistFile)

(***************************************************************************)
(* Unknown extensions                                                      *)
(***************************************************************************)
\* the filename has a stem and an extension that is no name of the parser
UnknownExtension(name) ==
    /\ file_stem(name).kind = "Some"
    /\ extension(name).kind = "Some"
    /\ extension(name).val # <<>>
    /\ \A n \in xspf_ExtnNames : extension(name).val # VariantName(n)

\* C20: an unknown extension is no error for a track: for every filename
\* with a non-empty extension outside the recognized set the construction of
\* the Track succeeds, the extension held in a variant.
C20_AsStated ==
    (pc \in {"filepath_done", "uri_done"}
        /\ (pc = "uri_done" => HasPrefix(track_arg, FILE_URI_PREFIX))
        /\ Len(Segments(track_arg)) >= 2
        /\ UnknownExtension(LastSegment(track_arg)))
        => /\ track_res.kind = "Ok"
           /\ track_res.val.info.extn.tag \in {"Unknown"} \cup xspf_ExtnNames

\* every such filename ends the construction in a panic
C20_AlwaysPanics ==
    (pc \in {"filepath_done", "uri_done"}
        /\ (pc = "uri_done" => HasPrefix(track_arg, FILE_URI_PREFIX))
        /\ Len(Segments(track_arg)) >= 2
        /\ UnknownExtension(LastSegment(track_arg)))
        => track_res = Panic

\* d/a.wav: a panic out of from_filepath
C20_WavPanics ==
    /\ pc = "filepath_done"
    /\ track_arg = <<"d","/","a",".","w","a","v">>
    /\ track_res = Panic

(***************************************************************************)
(* from_file_stem: the two recognizers                                     *)
(***************************************************************************)
\* the decomposition with RE_MUSE_SCORE tried before RE_VIOLIN_LAYERING
MuseScoreFirst(s) ==
    LET vcap == RE_VIOLIN_LAYERING(s)
        mcap == RE_MUSE_SCORE(s)
    IN IF mcap.kind = "Some"
       THEN [track_type |-> "MuseScore",
             index      |-> unwrap_or_default(parse_i32(mcap.val.index)),
             name       |-> mcap.val.id.val,
             extn       |-> Placeholder]
       ELSE IF vcap.kind = "Some"
       THEN [track_type |-> "ViolinLayering",
             index      |-> unwrap_or_default(parse_i32(vcap.val.index)),
             name       |-> IF vcap.val.id.kind = "Some"
                            THEN vcap.val.id.val ELSE Untitled,
             extn       |-> Placeholder]
       ELSE [track_type |-> "UnknownType",
             index      |-> 0,
             name       |-> s,
             extn       |-> Placeholder]

\* C21: no stem is matched by both RE_VIOLIN_LAYERING and RE_MUSE_SCORE, so
\* the decomposition is the same whichever recognizer is tried first.
C21_Exclusive ==
    /\ ~(RE_VIOLIN_LAYERING(stem).kind = "Some" /\ RE_MUSE_SCORE(stem).kind = "Some")
    /\ pc = "stem_done" => fic = MuseScoreFirst(stem)

\* a stem of the second recognizer, decomposed
C21_Witness ==
    /\ pc = "stem_done"
    /\ RE_MUSE_SCORE(stem).kind = "Some"
    /\ RE_VIOLIN_LAYERING(stem).kind = "None"
    /\ fic.track_type = "MuseScore"
    /\ fic = MuseScoreFirst(stem)

\* the stem begins with a long prefix and the separator of the other one
WrongSeparator(s) ==
    \/ HasPrefix(s, <<"v","l","n","_","l","a","y","e","r","i","n","g","_">>)
    \/ HasPrefix(s, <<"v","l","n","_","i","m","p","r","o","v","-">>)

\* C22: vln_layering is recognized only before '-' and vln_improv only
\* before '_'; a stem such as vln_layering_05-x or vln_improv-05-x is not
\* ViolinLayering and falls through to Unknown.
C22_AsStated ==
    (pc = "stem_done" /\ WrongSeparator(stem))
        => /\ fic.track_type = "UnknownType"
           /\ fic.index = 0
           /\ fic.name = stem

\* either separator is taken after either long prefix: what follows decides
C22_EitherSeparator ==
    (pc = "stem_done" /\ WrongSeparator(stem))
        => (fic.track_type = "ViolinLayering"
              <=> \/ ViolinMatchesAt(stem, 3) # {}
                  \/ ViolinMatchesAt(stem, 4) # {})

\* vln_layering_5-a and vln_improv-5-a decomposed as ViolinLayering 5 "a"
C22_WrongSeparatorTaken ==
    /\ pc = "stem_done"
    /\ WrongSeparator(stem)
    /\ fic.track_type = "ViolinLayering"
    /\ fic.index = 5
    /\ fic.name = <<"a">>

(***************************************************************************)
(* from_file_stem: the index of a matched stem                             *)
(***************************************************************************)
\* the index group of the recognizer that decomposes s, or None
MatchedIndex(s) ==
    IF RE_VIOLIN_LAYERING(s).kind = "Some"
    THEN Some(RE_VIOLIN_LAYERING(s).val.index)
    ELSE IF RE_MUSE_SCORE(s).kind = "Some"
    THEN Some(RE_MUSE_SCORE(s).val.index)
    ELSE None

AllAsciiDigits(d) == \A i \in 1..Len(d) : IsAsciiDigit(d[i])

\* C23 as stated: for every stem matched by a recognizer the index is the
\* value of the matched digits; the parse never fails and the default 0 is
\* never substituted, whatever the length of the digits.
C23_AsStated ==
    (pc = "stem_done" /\ MatchedIndex(stem).kind = "Some")
        => /\ parse_i32(MatchedIndex(stem).val).kind = "Ok"
           /\ AllAsciiDigits(MatchedIndex(stem).val)
                => Decimal(fic.index) = StripZeros(MatchedIndex(stem).val)

\* C23 amended: the index is the value of the matched digits when they are
\* ASCII digits of a value of at most 2147483647; otherwise the parse fails
\* and the index is the default 0.
C23_IndexOrDefault ==
    (pc = "stem_done" /\ MatchedIndex(stem).kind = "Some")
        => IF AllAsciiDigits(MatchedIndex(stem).val)
              /\ FitsI32(MatchedIndex(stem).val)
           THEN /\ parse_i32(MatchedIndex(stem).val).kind = "Ok"
                /\ Decimal(fic.index) = StripZeros(MatchedIndex(stem).val)
           ELSE /\ parse_i32(MatchedIndex(stem).val).kind = "Err"
                /\ fic.index = 0

\* digits of a value over 2147483647 matched, the default substituted
C23_Witness ==
    /\ pc = "stem_done"
    /\ MatchedIndex(stem).kind = "Some"
    /\ AllAsciiDigits(MatchedIndex(stem).val)
    /\ ~FitsI32(MatchedIndex(stem).val)
    /\ fic.track_type = "MuseScore"
    /\ fic.index = 0

\* a digit that is no ASCII digit matched by \d, the default substituted
C23_UnicodeDigit ==
    /\ pc = "stem_done"
    /\ MatchedIndex(stem).kind = "Some"
    /\ ~AllAsciiDigits(MatchedIndex(stem).val)
    /\ fic.index = 0

(***************************************************************************)
(* The info of a Track and track_name_info                                 *)
(***************************************************************************)
\* C24: the info stored in a Track built by from_filepath is, for every
\* filename, what FilenameInfoComponents::new of track_name_info gives on
\* that filename: same track type, index, name and extension.
C24_AsStated ==
    (pc = "filepath_done" /\ Len(Segments(track_arg)) >= 2)
        => IF new(LastSegment(track_arg)).kind = "Ok"
           THEN /\ track_res.kind = "Ok"
                /\ track_res.val.info = new(LastSegment(track_arg)).val
           ELSE track_res = Panic

\* the two agree on the filenames the recognizers of xspf_parser match
C24_AgreeWhenRecognized ==
    (pc = "filepath_done" /\ track_res.kind = "Ok"
        /\ track_res.val.info.track_type # "UnknownType")
        => /\ new(LastSegment(track_arg)).kind = "Ok"
           /\ track_res.val.info = new(LastSegment(track_arg)).val

\* a filename no recognizer matches: index 1 in the Track, 0 in track_name_info
C24_FallbackDiffers ==
    /\ pc = "filepath_done"
    /\ track_res.kind = "Ok"
    /\ track_res.val.info.track_type = "UnknownType"
    /\ track_res.val.info.index = 1
    /\ new(LastSegment(track_arg)).kind = "Ok"
    /\ new(LastSegment(track_arg)).val.track_type = "UnknownType"
    /\ new(LastSegment(track_arg)).val.index = 0

(***************************************************************************)
(* copy_files_mode                                                         *)
(***************************************************************************)
\* the positions of the tracks whose copy succeeded, in playlist order
CopiedPositions == SelectSeq([i \in 1..Len(copy_ok) |-> i], LAMBDA i : copy_ok[i])

\* the names of the copies of those tracks
CopiedNames ==
    [j \in 1..Len(CopiedPositions) |->
        dst_filename(copy_tracks[CopiedPositions[j]], CopiedPositions[j] - 1,
                     copy_width)]

NoRepeat(s) == \A i, j \in 1..Len(s) : s[i] = s[j] => i = j

\* the loop has been through the first copy_pos tracks and holds the names
\* of the copied ones; a manifest exists only after the last track, and one
\* written in full holds those names, each once
C25_ManifestOfCopied ==
    /\ pc \in {"copy_loop", "copy_done"} =>
        /\ Len(copy_ok) = copy_pos
        /\ copy_pos <= Len(copy_tracks)
        /\ dest_filenames = CopiedNames
        /\ NoRepeat(dest_filenames)
    /\ manifest # NoResult =>
        /\ pc = "copy_done"
        /\ copy_pos = Len(copy_tracks)
    /\ manifest.kind = "Written" =>
        /\ manifest.val = CopiedNames
        /\ NoRepeat(manifest.val)

\* C25: whatever copies succeed and fail, the loop goes through every track
\* in order, a failed copy not stopping it, and the manifest, written only
\* after the last track was attempted, holds exactly the names of the copies
\* that succeeded, in playlist order, each at most once.
C25_CopyLoop ==
    /\ []C25_ManifestOfCopied
    /\ [][copy_pos' = copy_pos \/ copy_pos' = copy_pos + 1]_vars
    /\ <>(pc = "copy_done" /\ copy_pos = Len(copy_tracks))

\* a copy failed, a later one succeeded, and the manifest was written
C25_Witness ==
    /\ pc = "copy_done"
    /\ manifest.kind = "Written"
    /\ \E i, j \in 1..Len(copy_ok) : i < j /\ ~copy_ok[i] /\ copy_ok[j]
    /\ \E i, j \in 1..Len(copy_ok) :
          i < j /\ copy_ok[i] /\ copy_ok[j] /\ copy_tracks[i] = copy_tracks[j]
    /\ Len(manifest.val) = 2

\* a writeln! failed: the manifest holds the names before it only
C25_ManifestCut ==
    /\ pc = "copy_done"
    /\ manifest.kind = "Cut"
    /\ Len(manifest.val) < Len(dest_filenames)

\* Track_<ordinal on the width>-<date>-<abbreviation><index on 2>_<name>.<ext>
\* with the rendered extension: to_string of it
ExportFilename(track, position, tixw) ==
    <<"T","r","a","c","k","_">> \o format_zero_padded(position, tixw)
        \o <<"-">> \o track.date
        \o <<"-">> \o shortname_safe(track.info.track_type)
        \o format_zero_padded(track.info.index, 2)
        \o <<"_">> \o track.info.name
        \o <<".">> \o to_string(track.info.extn)

C26_OnClosedSet ==
    pc \in {"copy_loop", "copy_done"} =>
        /\ \A j \in 1..Len(dest_filenames) :
              (/\ copy_tracks[CopiedPositions[j]].info.track_type # "UnknownType"
               /\ copy_tracks[CopiedPositions[j]].info.extn.tag # "Unknown")
                  => dest_filenames[j] =
                        ExportFilename(copy_tracks[CopiedPositions[j]],
                                       CopiedPositions[j], copy_width)
        /\ NoRepeat(dest_filenames)

\* 2017/v01-a.wav copied first: Track_01-2017-VL01_a.Unknown("wav")
C26_DebugOfUnknown ==
    /\ pc = "copy_loop"
    /\ Len(dest_filenames) = 1
    /\ copy_ok = <<TRUE>>
    /\ dest_filenames[1] =
          <<"T","r","a","c","k","_","0","1","-","2","0","1","7","-","V","L",
            "0","1","_","a",".",
            "U","n","k","n","o","w","n","(","\"","w","a","v","\"",")">>
====
